---- MODULE Spec2Model ----
(***************************************************************************)
(* Model of the infographic article renderer.                              *)
(*                                                                         *)
(*  - Task client: src/frontend/App.tsx (fetchArticle, pollTaskStatus and  *)
(*    the handlers of the four screens).                                   *)
(*  - JSON editor shell: src/App.tsx (the effect that parses jsonInput).   *)
(***************************************************************************)
EXTENDS Integers, Sequences, FiniteSets, TLC

(***************************************************************************)
(* Bounds of the model.                                                    *)
(***************************************************************************)
\* number of fetchArticle calls followed in one behaviour
MaxSubs == 2
\* longest text typed into the URL field / carried by the url query parameter
MaxUrlLen == 2
\* longest run of tokens typed in the place of a JSON value in the editor
MaxValueLen == 2

(***************************************************************************)
(* Values.                                                                 *)
(***************************************************************************)
\* JavaScript null, in slots holding a document, an error text or a status
NULL == "<null>"
\* JavaScript null, in slots holding a text made of characters
NullStr == <<"<null>">>

Chars == {" ", "a"}

RECURSIVE StrsOfLen(_)
StrsOfLen(n) ==
  IF n = 0 THEN {<<>>}
  ELSE {Append(s, c) : s \in StrsOfLen(n - 1), c \in Chars}

\* every text of at most MaxUrlLen characters
Strs == UNION {StrsOfLen(n) : n \in 0..MaxUrlLen}

\* String.prototype.trim
RECURSIVE TrimLeft(_)
TrimLeft(s) ==
  IF s # <<>> /\ Head(s) = " " THEN TrimLeft(Tail(s)) ELSE s

RECURSIVE TrimRight(_)
TrimRight(s) ==
  IF s # <<>> /\ s[Len(s)] = " " THEN TrimRight(SubSeq(s, 1, Len(s) - 1)) ELSE s

Trim(s) == TrimRight(TrimLeft(s))

\* truthiness of a string | null value
Truthy(s) == s # NullStr /\ s # <<>>

\* documents a completed task can carry
Docs == {"doc1", "doc2"}
\* task handles the server hands out
TaskIds == {"t1", "t2"}
\* error texts a failed task can carry (string | null)
TaskErrors == {NULL, "", "crawl failed"}
\* statusText of a non-OK HTTP response
StatusTexts == {"", "Bad Gateway"}

TaskStatuses == {"pending", "processing", "completed", "failed"}

\* TaskResponse bodies of a 2xx response with a JSON body
TaskResponses ==
  [kind : {"task"}, id : TaskIds, status : {"pending", "processing"},
   result : {NULL}, error : {NULL}, text : {""}]
  \cup
  [kind : {"task"}, id : TaskIds, status : {"completed"},
   result : Docs \cup {NULL}, error : {NULL}, text : {""}]
  \cup
  [kind : {"task"}, id : TaskIds, status : {"failed"},
   result : {NULL}, error : TaskErrors, text : {""}]

\* transport-level failures: fetch rejects, the response is not OK,
\* or response.json() rejects
TransportFailures ==
  [kind : {"reject"}, id : {NULL}, status : {NULL}, result : {NULL},
   error : {NULL}, text : {"Failed to fetch"}]
  \cup
  [kind : {"notOk"}, id : {NULL}, status : {NULL}, result : {NULL},
   error : {NULL}, text : StatusTexts]
  \cup
  [kind : {"badBody"}, id : {NULL}, status : {NULL}, result : {NULL},
   error : {NULL}, text : {"Unexpected token < in JSON"}]

Responses == TaskResponses \cup TransportFailures

(***************************************************************************)
(* State of the task client (src/frontend/App.tsx).                        *)
(***************************************************************************)
VARIABLES
  articleData,         \* useState<ArticleData | null>
  loading,             \* useState(false)
  error,               \* useState<string | null>
  taskStatus,          \* useState<string | null>
  articleUrl,          \* useState<string | null>
  inputUrl,            \* useState('')
  showInput,           \* useState(true)
  translateToChinese,  \* useState(true)
  location,            \* window.location.search: the url and refresh parameters
  mounted,             \* the initialising effect has run
  loops,               \* running fetchArticle invocations, by submission number
  nextSub,             \* number of the next fetchArticle invocation
  stale,               \* running invocations abandoned by handleBack or superseded
  lastStep,            \* the step taken last: its operation, submission and response
  lastPost             \* the body of the POST of the submission on display; none
                       \* before the first one and after handleBack

clientVars == <<articleData, loading, error, taskStatus, articleUrl, inputUrl,
                showInput, translateToChinese, location, mounted, loops,
                nextSub, stale, lastStep, lastPost>>

(***************************************************************************)
(* State of the JSON editor shell (src/App.tsx).                           *)
(***************************************************************************)
VARIABLES
  jsonInput,           \* useState<string>(JSON.stringify(SAMPLE_DATA, null, 2))
  parsedData,          \* useState<ArticleData | null>(SAMPLE_DATA)
  editorError,         \* useState<string | null>(null), named error in src/App.tsx
  editorMounted        \* the parsing effect has run for the initial input

editorVars == <<jsonInput, parsedData, editorError, editorMounted>>

(***************************************************************************)
(* The article renderer: the document it is given and the tree it returns. *)
(***************************************************************************)
VARIABLES
  data,                \* the document at hand: ArticleRendererProps.data
  view                 \* the element tree ArticleRenderer returned last

rendererVars == <<data, view>>

(***************************************************************************)
(* A paragraph or a list item: its text and the spans it is rendered as.   *)
(***************************************************************************)
VARIABLES
  markup,              \* the text of the paragraph or of the list item
  spans                \* the children rendered for it; none before rendering

textVars == <<markup, spans>>

(***************************************************************************)
(* An image block (ImageBlock).                                            *)
(***************************************************************************)
VARIABLES
  aspect,              \* useState('16 / 9'): the label of the aspect in use
  natural,             \* naturalWidth and naturalHeight of the <img>
  loadEvent            \* what the last load event did: "none", "set", "skipped"

imageVars == <<aspect, natural, loadEvent>>

(***************************************************************************)
(* An accordion block (AccordionBlock).                                    *)
(***************************************************************************)
VARIABLES
  itemCount,           \* items.length
  openIndex,           \* useState<number | null>(0)
  shown,               \* per item, whether its answer is rendered
  clicked              \* the header clicked last and whether its item was open

accordionVars == <<itemCount, openIndex, shown, clicked>>

(***************************************************************************)
(* A copy button (CodeBlock, PromptModal) and the clock.                   *)
(***************************************************************************)
VARIABLES
  widget,              \* the component the button belongs to
  copied,              \* useState(false)
  timers,              \* the pending setTimeout callbacks: the time left of each
  writes,              \* calls of clipboard.writeText that are awaited
  sinceCopy,           \* time since setCopied(true) ran last, capped
  copies               \* number of clicks so far

copyVars == <<widget, copied, timers, writes, sinceCopy, copies>>

(***************************************************************************)
(* A comparison block or a table block (ComparisonBlock, TableBlock).      *)
(***************************************************************************)
VARIABLES
  grid,                \* the block: its columns or headers and its rows
  cells                \* the rows of cells rendered for it; none before rendering

gridVars == <<grid, cells>>

(***************************************************************************)
(* The popup of the browser extension (src/chrome-extension/popup.js).     *)
(***************************************************************************)
VARIABLES
  activeTab,           \* what chrome.tabs.query answers: the active tab's url
  currentTabUrl,       \* let currentTabUrl = ''
  analyzeDisabled,     \* analyzeBtnEl.disabled
  translateCheck,      \* translateCheckEl.checked
  storage,             \* chrome.storage.sync: serverUrl and translateToChinese
  popupPc,             \* where init() stands: "query", "settings", "ready"
  handlers,            \* the click handlers that are waiting, by click number
  tabs,                \* the urls given to chrome.tabs.create, in order
  closed,              \* window.close() was called
  opened,              \* what the handler that created the tab had read
  popStep              \* the step of the popup taken last

popupVars == <<activeTab, currentTabUrl, analyzeDisabled, translateCheck,
               storage, popupPc, handlers, tabs, closed, opened, popStep>>

(***************************************************************************)
(* One item of a rating block (RatingBlock).                               *)
(***************************************************************************)
VARIABLES
  rating,              \* the item: its score and its maxScore, if it has one
  stars                \* the icons renderStars returned; none before rendering

ratingVars == <<rating, stars>>

vars == <<clientVars, editorVars, rendererVars, textVars, imageVars,
          accordionVars, copyVars,
          gridVars, popupVars, ratingVars>>

\* what a step of one part leaves alone: the variables of the other parts
notClientVars == <<editorVars, rendererVars, textVars, imageVars, accordionVars, copyVars,
  gridVars, popupVars, ratingVars>>
notEditorVars == <<clientVars, rendererVars, textVars, imageVars, accordionVars, copyVars,
  gridVars, popupVars, ratingVars>>
notRendererVars == <<clientVars, textVars, imageVars, accordionVars, copyVars,
  gridVars, popupVars, ratingVars>>
notTextVars == <<clientVars, editorVars, rendererVars, imageVars, accordionVars, copyVars,
  gridVars, popupVars, ratingVars>>
notImageVars == <<clientVars, editorVars, rendererVars, textVars, accordionVars, copyVars,
  gridVars, popupVars, ratingVars>>
notAccordionVars == <<clientVars, editorVars, rendererVars, textVars, imageVars, copyVars,
  gridVars, popupVars, ratingVars>>
notCopyVars == <<clientVars, editorVars, rendererVars, textVars, imageVars, accordionVars,
  gridVars, popupVars, ratingVars>>
notGridVars == <<clientVars, editorVars, rendererVars, textVars,
  imageVars, accordionVars, copyVars, popupVars, ratingVars>>
notPopupVars == <<clientVars, editorVars, rendererVars, textVars,
  imageVars, accordionVars, copyVars, gridVars, ratingVars>>
notRatingVars == <<clientVars, editorVars, rendererVars, textVars,
  imageVars, accordionVars, copyVars, gridVars, popupVars>>

Live == DOMAIN loops

\* the function f without the argument i
Without(f, i) == [j \in (DOMAIN f) \ {i} |-> f[j]]

\* the function f with the argument i mapped to v
With(f, i, v) == [j \in (DOMAIN f) \cup {i} |-> IF j = i THEN v ELSE f[j]]

(***************************************************************************)
(* Constants of pollTaskStatus.                                            *)
(***************************************************************************)
maxAttempts == 150

TimeoutMessage == "Task timeout: processing took too long"

(***************************************************************************)
(* Pure helpers of the task client.                                        *)
(***************************************************************************)
getUrlParam == location.url

\* variant: any value of the refresh parameter counts
getForceRefresh_AnyValue == location.refresh # NULL

\* params.get('refresh') === 'true'
getForceRefresh == location.refresh = "true"

\* the query string left by updateBrowserUrl(articleUrl)
updateBrowserUrl(url) ==
  IF Truthy(url) THEN [url |-> url, refresh |-> NULL]
  ELSE [url |-> NullStr, refresh |-> NULL]

\* variant: task.status === 'completed', whatever the result
IsCompleted_IgnoresResult(task) == task.status = "completed"

\* task.status === 'completed' && task.result
IsCompleted(task) == task.status = "completed" /\ task.result # NULL

\* task.status === 'failed'
IsFailed(task) == task.status = "failed"

\* variant: task.error ?? 'Task failed'
TaskErrorText_NullishOnly(task) ==
  IF task.error # NULL THEN task.error ELSE "Task failed"

\* task.error || 'Task failed'
TaskErrorText(task) ==
  IF task.error # NULL /\ task.error # "" THEN task.error ELSE "Task failed"

\* the message of the Error thrown for a transport failure of the create call
CreateFailureMessage(r) ==
  IF r.kind = "notOk" THEN "Failed to create task: " \o r.text ELSE r.text

\* the message of the Error thrown for a transport failure of a poll call
PollFailureMessage(r) ==
  IF r.kind = "notOk" THEN "Failed to get task status: " \o r.text ELSE r.text

\* variant: attempt <= maxAttempts
LoopContinues_OffByOne(attempt) == attempt <= maxAttempts

\* attempt < maxAttempts
LoopContinues(attempt) == attempt < maxAttempts

\* variant: the input screen is rendered whenever showInput is set
Screen_InputWhileLoading ==
  IF showInput THEN "input"
  ELSE IF loading THEN "loading"
  ELSE IF error # NULL THEN "error"
  ELSE "article"

\* which screen the component renders
Screen ==
  IF showInput /\ ~loading THEN "input"
  ELSE IF loading THEN "loading"
  ELSE IF error # NULL THEN "error"
  ELSE "article"

(***************************************************************************)
(* Requests in flight.                                                     *)
(***************************************************************************)
NoRequest ==
  [method |-> "none", taskId |-> NULL, url |-> NullStr,
   force_refresh |-> FALSE, translate_to_chinese |-> FALSE]

\* POST /api/tasks with body {url, force_refresh, translate_to_chinese}
PostRequest(url, forceRefresh, translate) ==
  [method |-> "POST", taskId |-> NULL, url |-> url,
   force_refresh |-> forceRefresh, translate_to_chinese |-> translate]

\* GET /api/tasks/{taskId}
GetRequest(taskId) ==
  [method |-> "GET", taskId |-> taskId, url |-> NullStr,
   force_refresh |-> FALSE, translate_to_chinese |-> FALSE]

\* no response: the step was not the settling of a request
NoResponse ==
  [kind |-> "none", id |-> NULL, status |-> NULL, result |-> NULL,
   error |-> NULL, text |-> ""]

\* the record of a step: the operation, the submission it belongs to (0 for
\* none), the response it consumed, the number of GET requests the
\* submission had issued before the step and the screen the step was taken on
Step(op, sub, resp, polls) ==
  [op |-> op, sub |-> sub, resp |-> resp, polls |-> polls, screen |-> Screen]

(***************************************************************************)
(* Initial state: the component after construction, before its effect.     *)
(***************************************************************************)
ClientInit ==
  /\ articleData = NULL
  /\ loading = FALSE
  /\ error = NULL
  /\ taskStatus = NULL
  /\ articleUrl = NullStr
  /\ inputUrl = <<>>
  /\ showInput = TRUE
  /\ translateToChinese = TRUE
  /\ location \in [url : Strs \cup {NullStr}, refresh : {NULL, "true", "false"}]
  /\ mounted = FALSE
  /\ loops = <<>>
  /\ nextSub = 1
  /\ stale = {}
  /\ lastStep = Step("init", 0, NoResponse, 0)
  /\ lastPost = NoRequest

(***************************************************************************)
(* Terminal outcomes of a submission.                                      *)
(***************************************************************************)
\* variant: the result is stored but the return is missing, the loop goes on
DeliverResult_NoReturn(i, result) ==
  /\ articleData' = result
  /\ loading' = FALSE
  /\ taskStatus' = NULL
  /\ loops' = With(loops, i, [loops[i] EXCEPT !.pc = "sleep",
                                              !.request = NoRequest])
  /\ UNCHANGED <<error, stale>>

\* setArticleData(task.result); setLoading(false); setTaskStatus(null); return
DeliverResult(i, result) ==
  /\ articleData' = result
  /\ loading' = FALSE
  /\ taskStatus' = NULL
  /\ loops' = Without(loops, i)
  /\ stale' = stale \ {i}
  /\ UNCHANGED error

\* variant: the catch block leaves the status text
FetchCatch_KeepsStatus(i, message) ==
  /\ error' = message
  /\ loading' = FALSE
  /\ loops' = Without(loops, i)
  /\ stale' = stale \ {i}
  /\ UNCHANGED <<articleData, taskStatus>>

\* the catch block of fetchArticle
FetchCatch(i, message) ==
  /\ error' = message
  /\ loading' = FALSE
  /\ taskStatus' = NULL
  /\ loops' = Without(loops, i)
  /\ stale' = stale \ {i}
  /\ UNCHANGED articleData

\* variant: the catch block swallows the error and the loop tries again
PollCatch_Retry(i, message) ==
  /\ loops' = With(loops, i, [loops[i] EXCEPT !.pc = "sleep",
                                              !.request = NoRequest])
  /\ UNCHANGED <<articleData, loading, error, taskStatus, stale>>

\* the catch block inside the loop of pollTaskStatus
PollCatch(i, message) ==
  /\ error' = message
  /\ loading' = FALSE
  /\ taskStatus' = NULL
  /\ loops' = Without(loops, i)
  /\ stale' = stale \ {i}
  /\ UNCHANGED articleData

\* the statements after the loop of pollTaskStatus
PollTimeout(i) ==
  /\ error' = TimeoutMessage
  /\ loading' = FALSE
  /\ taskStatus' = NULL
  /\ loops' = Without(loops, i)
  /\ stale' = stale \ {i}
  /\ UNCHANGED articleData

\* the head of the loop of pollTaskStatus, reached with the loop record l:
\* either the next GET is issued or the attempt budget is exhausted
PollLoop(i, l) ==
  IF LoopContinues(l.attempt)
  THEN /\ loops' = With(loops, i, [l EXCEPT !.pc = "awaitPoll",
                                            !.polls = l.polls + 1,
                                            !.request = GetRequest(l.taskId)])
       /\ UNCHANGED <<articleData, loading, error, taskStatus, stale>>
  ELSE PollTimeout(i)

(***************************************************************************)
(* fetchArticle up to its first await: the state updates and the POST.     *)
(***************************************************************************)
fetchArticle(url, forceRefresh, translate) ==
  /\ nextSub <= MaxSubs
  /\ loading' = TRUE
  /\ error' = NULL
  /\ taskStatus' = "creating"
  /\ articleUrl' = url
  /\ showInput' = FALSE
  /\ location' = updateBrowserUrl(url)
  /\ loops' = With(loops, nextSub,
                   [pc |-> "awaitCreate", taskId |-> NULL, attempt |-> 0,
                    posts |-> 1, polls |-> 0,
                    request |-> PostRequest(url, forceRefresh, translate)])
  /\ nextSub' = nextSub + 1
  /\ stale' = stale \cup Live
  /\ lastPost' = PostRequest(url, forceRefresh, translate)
  /\ UNCHANGED articleData

(***************************************************************************)
(* Steps of a running submission.                                          *)
(***************************************************************************)
\* the create call settles with r
CreateResponse(i, r) ==
  /\ i \in Live
  /\ loops[i].pc = "awaitCreate"
  /\ IF r.kind # "task" THEN FetchCatch(i, CreateFailureMessage(r))
     ELSE IF IsCompleted(r) THEN DeliverResult(i, r.result)
     ELSE IF IsFailed(r) THEN FetchCatch(i, TaskErrorText(r))
     ELSE PollLoop(i, [loops[i] EXCEPT !.taskId = r.id, !.attempt = 0])
  /\ lastStep' = Step("CreateResponse", i, r, loops[i].polls)
  /\ UNCHANGED lastPost
  /\ UNCHANGED <<articleUrl, inputUrl, showInput, translateToChinese,
                 location, mounted, nextSub>>

\* a poll call settles with r
PollResponse(i, r) ==
  /\ i \in Live
  /\ loops[i].pc = "awaitPoll"
  \* GET /api/tasks/{id} answers with the snapshot of the task asked for
  /\ r.kind = "task" => r.id = loops[i].taskId
  /\ IF r.kind # "task" THEN PollCatch(i, PollFailureMessage(r))
     ELSE IF IsCompleted(r) THEN DeliverResult(i, r.result)
     ELSE IF IsFailed(r) THEN PollCatch(i, TaskErrorText(r))
     ELSE /\ taskStatus' = r.status
          /\ loops' = With(loops, i, [loops[i] EXCEPT !.pc = "sleep",
                                                      !.request = NoRequest])
          /\ UNCHANGED <<articleData, loading, error, stale>>
  /\ lastStep' = Step("PollResponse", i, r, loops[i].polls)
  /\ UNCHANGED lastPost
  /\ UNCHANGED <<articleUrl, inputUrl, showInput, translateToChinese,
                 location, mounted, nextSub>>

\* the pollInterval timer of a waiting loop fires: attempt++ and the loop head
TimerFired(i) ==
  /\ i \in Live
  /\ loops[i].pc = "sleep"
  /\ PollLoop(i, [loops[i] EXCEPT !.attempt = loops[i].attempt + 1])
  /\ lastStep' = Step("TimerFired", i, NoResponse, loops[i].polls)
  /\ UNCHANGED lastPost
  /\ UNCHANGED <<articleUrl, inputUrl, showInput, translateToChinese,
                 location, mounted, nextSub>>

(***************************************************************************)
(* The effect and the event handlers.                                      *)
(***************************************************************************)
\* useEffect(() => { ... }, [getUrlParam, getForceRefresh, fetchArticle])
Mount ==
  /\ ~mounted
  /\ mounted' = TRUE
  /\ lastStep' = Step("Mount", IF Truthy(getUrlParam) THEN nextSub ELSE 0,
                      NoResponse, 0)
  /\ IF Truthy(getUrlParam)
     THEN /\ inputUrl' = getUrlParam
          /\ fetchArticle(getUrlParam, getForceRefresh, TRUE)
          /\ UNCHANGED translateToChinese
     ELSE UNCHANGED <<articleData, loading, error, taskStatus, articleUrl,
                      inputUrl, showInput, translateToChinese, location,
                      loops, nextSub, stale, lastPost>>

\* onChange of the URL field
SetInputUrl(s) ==
  /\ mounted
  /\ Screen = "input"
  /\ inputUrl' = s
  /\ lastStep' = Step("SetInputUrl", 0, NoResponse, 0)
  /\ UNCHANGED lastPost
  /\ UNCHANGED <<articleData, loading, error, taskStatus, articleUrl,
                 showInput, translateToChinese, location, mounted, loops,
                 nextSub, stale>>

\* onChange of the translate checkbox
SetTranslateToChinese(b) ==
  /\ mounted
  /\ Screen = "input"
  /\ translateToChinese' = b
  /\ lastStep' = Step("SetTranslateToChinese", 0, NoResponse, 0)
  /\ UNCHANGED lastPost
  /\ UNCHANGED <<articleData, loading, error, taskStatus, articleUrl,
                 inputUrl, showInput, location, mounted, loops, nextSub, stale>>

handleSubmit ==
  /\ mounted
  /\ Screen = "input"
  /\ Trim(inputUrl) # <<>>
  /\ fetchArticle(Trim(inputUrl), FALSE, translateToChinese)
  /\ lastStep' = Step("handleSubmit", nextSub, NoResponse, 0)
  /\ UNCHANGED <<inputUrl, translateToChinese, mounted>>

\* variant: the retry keeps force_refresh off
handleRefresh_NoForce ==
  /\ mounted
  /\ Screen \in {"error", "article"}
  /\ Truthy(articleUrl)
  /\ fetchArticle(articleUrl, FALSE, translateToChinese)
  /\ lastStep' = Step("handleRefresh", nextSub, NoResponse, 0)
  /\ UNCHANGED <<inputUrl, translateToChinese, mounted>>

\* onClick of the refresh button and of the retry button
handleRefresh ==
  /\ mounted
  /\ Screen \in {"error", "article"}
  /\ Truthy(articleUrl)
  /\ fetchArticle(articleUrl, TRUE, translateToChinese)
  /\ lastStep' = Step("handleRefresh", nextSub, NoResponse, 0)
  /\ UNCHANGED <<inputUrl, translateToChinese, mounted>>

\* variant: the screen shown does not go back to the input form
handleBack_KeepsScreen ==
  /\ mounted
  /\ Screen \in {"loading", "error", "article"}
  /\ articleData' = NULL
  /\ error' = NULL
  /\ articleUrl' = NullStr
  /\ location' = updateBrowserUrl(NullStr)
  /\ stale' = stale \cup Live
  /\ lastStep' = Step("handleBack", 0, NoResponse, 0)
  /\ lastPost' = NoRequest
  /\ UNCHANGED <<showInput, loading, taskStatus, inputUrl, translateToChinese,
                 mounted, loops, nextSub>>

\* variant: the way back also ends the loading screen
handleBack_ClearsLoading ==
  /\ mounted
  /\ Screen \in {"loading", "error", "article"}
  /\ showInput' = TRUE
  /\ loading' = FALSE
  /\ articleData' = NULL
  /\ error' = NULL
  /\ articleUrl' = NullStr
  /\ location' = updateBrowserUrl(NullStr)
  /\ stale' = stale \cup Live
  /\ lastStep' = Step("handleBack", 0, NoResponse, 0)
  /\ lastPost' = NoRequest
  /\ UNCHANGED <<taskStatus, inputUrl, translateToChinese, mounted, loops,
                 nextSub>>

\* variant: the error message survives the way back
handleBack_KeepsError ==
  /\ mounted
  /\ Screen \in {"loading", "error", "article"}
  /\ showInput' = TRUE
  /\ articleData' = NULL
  /\ articleUrl' = NullStr
  /\ location' = updateBrowserUrl(NullStr)
  /\ stale' = stale \cup Live
  /\ lastStep' = Step("handleBack", 0, NoResponse, 0)
  /\ lastPost' = NoRequest
  /\ UNCHANGED <<error, loading, taskStatus, inputUrl, translateToChinese,
                 mounted, loops, nextSub>>

\* onClick of the back button and of the cancel button
handleBack ==
  /\ mounted
  /\ Screen \in {"loading", "error", "article"}
  /\ showInput' = TRUE
  /\ articleData' = NULL
  /\ error' = NULL
  /\ articleUrl' = NullStr
  /\ location' = updateBrowserUrl(NullStr)
  /\ stale' = stale \cup Live
  /\ lastStep' = Step("handleBack", 0, NoResponse, 0)
  /\ lastPost' = NoRequest
  /\ UNCHANGED <<loading, taskStatus, inputUrl, translateToChinese, mounted,
                 loops, nextSub>>

handleAnalyzeLink(url) ==
  /\ mounted
  /\ Screen = "article"
  /\ articleData # NULL
  /\ inputUrl' = url
  /\ fetchArticle(url, FALSE, translateToChinese)
  /\ lastStep' = Step("handleAnalyzeLink", nextSub, NoResponse, 0)
  /\ UNCHANGED <<translateToChinese, mounted>>

(***************************************************************************)
(* JSON values and texts of the editor.  A text is a sequence of tokens    *)
(* (white space is dropped); a value is a record of one shape.             *)
(***************************************************************************)
JUndefined == [kind |-> "undefined", lit |-> "", keys |-> <<>>, items |-> <<>>]
JNull == [kind |-> "null", lit |-> "", keys |-> <<>>, items |-> <<>>]
JNum(l) == [kind |-> "num", lit |-> l, keys |-> <<>>, items |-> <<>>]
JStr(l) == [kind |-> "str", lit |-> l, keys |-> <<>>, items |-> <<>>]
JArr(items) == [kind |-> "arr", lit |-> "", keys |-> <<>>, items |-> items]
JObj(keys, items) == [kind |-> "obj", lit |-> "", keys |-> keys, items |-> items]

\* ArticleContentType of src/types.ts, the block types of the editor's renderer
BasicContentTypes ==
  {"paragraph", "list", "quote", "callout", "grid", "image", "stat", "tags",
   "timeline", "comparison", "table"}

\* ArticleContentType of the renderer with all block types
ArticleContentType ==
  BasicContentTypes
  \cup {"code", "accordion", "steps", "progress", "highlight", "definition",
        "proscons", "video", "divider", "linkcard", "rating"}

\* a type tag that no renderer knows
UnknownType == "hologram"

StringLits ==
  {"sections", "title", "x", "", "content", "type"}
  \cup ArticleContentType \cup {UnknownType}
Quote(s) == "\"" \o s \o "\""
StringTokens == {Quote(s) : s \in StringLits}
StringOf(t) == CHOOSE s \in StringLits : Quote(s) = t
NumberTokens == {"0", "1"}

ParseFail == [ok |-> FALSE, val |-> JUndefined, rest |-> <<>>]
ParseOk(v, rest) == [ok |-> TRUE, val |-> v, rest |-> rest]

\* obj[k] = v on an object under construction: a repeated key keeps its
\* place and takes the later value
PutMember(keys, items, k, v) ==
  IF \E n \in 1..Len(keys) : keys[n] = k
  THEN [keys |-> keys,
        items |-> [n \in 1..Len(items) |-> IF keys[n] = k THEN v ELSE items[n]]]
  ELSE [keys |-> Append(keys, k), items |-> Append(items, v)]

RECURSIVE ParseValue(_), ParseElements(_, _), ParseMembers(_, _, _)

\* one JSON value at the head of toks
ParseValue(toks) ==
  IF toks = <<>> THEN ParseFail
  ELSE LET t == Head(toks)
           rest == Tail(toks)
       IN  IF t = "null" THEN ParseOk(JNull, rest)
           ELSE IF t \in NumberTokens THEN ParseOk(JNum(t), rest)
           ELSE IF t \in StringTokens THEN ParseOk(JStr(StringOf(t)), rest)
           ELSE IF t = "["
             THEN IF rest # <<>> /\ Head(rest) = "]"
                  THEN ParseOk(JArr(<<>>), Tail(rest))
                  ELSE ParseElements(rest, <<>>)
           ELSE IF t = "{"
             THEN IF rest # <<>> /\ Head(rest) = "}"
                  THEN ParseOk(JObj(<<>>, <<>>), Tail(rest))
                  ELSE ParseMembers(rest, <<>>, <<>>)
           ELSE ParseFail

\* the elements of an array after "[" or ",", up to "]"
ParseElements(toks, acc) ==
  LET e == ParseValue(toks)
  IN  IF ~e.ok \/ e.rest = <<>> THEN ParseFail
      ELSE IF Head(e.rest) = "," THEN ParseElements(Tail(e.rest), Append(acc, e.val))
      ELSE IF Head(e.rest) = "]" THEN ParseOk(JArr(Append(acc, e.val)), Tail(e.rest))
      ELSE ParseFail

\* the members of an object after "{" or ",", up to "}"
ParseMembers(toks, keys, items) ==
  IF Len(toks) < 2 \/ Head(toks) \notin StringTokens \/ toks[2] # ":" THEN ParseFail
  ELSE LET m == ParseValue(Tail(Tail(toks)))
           put == PutMember(keys, items, StringOf(Head(toks)), m.val)
       IN  IF ~m.ok \/ m.rest = <<>> THEN ParseFail
           ELSE IF Head(m.rest) = "," THEN ParseMembers(Tail(m.rest), put.keys, put.items)
           ELSE IF Head(m.rest) = "}" THEN ParseOk(JObj(put.keys, put.items), Tail(m.rest))
           ELSE ParseFail

SyntaxErrorMessage == "Unexpected token in JSON"
TypeErrorMessage == "Cannot read properties of null (reading 'sections')"
SchemaErrorMessage == "Invalid schema: 'sections' array is missing."

\* JSON.parse: the whole text is one value, or a SyntaxError is thrown
JSONParse(text) ==
  LET p == ParseValue(text)
  IN  IF p.ok /\ p.rest = <<>> THEN [ok |-> TRUE, val |-> p.val]
      ELSE [ok |-> FALSE, val |-> JUndefined]

RECURSIVE JSONStringify(_), StringifyElements(_, _), StringifyMembers(_, _)

\* JSON.stringify(value, null, 2), as tokens
JSONStringify(v) ==
  IF v.kind = "null" THEN <<"null">>
  ELSE IF v.kind = "num" THEN <<v.lit>>
  ELSE IF v.kind = "str" THEN <<Quote(v.lit)>>
  ELSE IF v.kind = "arr" THEN <<"[">> \o StringifyElements(v.items, 1) \o <<"]">>
  ELSE <<"{">> \o StringifyMembers(v, 1) \o <<"}">>

StringifyElements(items, n) ==
  IF n > Len(items) THEN <<>>
  ELSE (IF n > 1 THEN <<",">> ELSE <<>>) \o JSONStringify(items[n])
       \o StringifyElements(items, n + 1)

StringifyMembers(v, n) ==
  IF n > Len(v.keys) THEN <<>>
  ELSE (IF n > 1 THEN <<",">> ELSE <<>>) \o <<Quote(v.keys[n]), ":">>
       \o JSONStringify(v.items[n]) \o StringifyMembers(v, n + 1)

\* value.name for a value that is neither null nor undefined
GetProp(v, name) ==
  IF v.kind = "obj" /\ \E n \in 1..Len(v.keys) : v.keys[n] = name
  THEN v.items[CHOOSE n \in 1..Len(v.keys) : v.keys[n] = name]
  ELSE JUndefined

\* !value
Falsy(v) ==
  \/ v.kind \in {"undefined", "null"}
  \/ v.kind = "num" /\ v.lit = "0"
  \/ v.kind = "str" /\ v.lit = ""

\* Array.isArray(value)
IsArray(v) == v.kind = "arr"

\* variant: only !parsed.sections is tested
SectionsMissing_FalsyOnly(parsed) == Falsy(GetProp(parsed, "sections"))

\* !parsed.sections || !Array.isArray(parsed.sections)
SectionsMissing(parsed) ==
  Falsy(GetProp(parsed, "sections")) \/ ~IsArray(GetProp(parsed, "sections"))

\* the body of the try block of the parsing effect: the document it accepts,
\* or the message of the error it throws
ParseAndValidate(text) ==
  LET p == JSONParse(text)
  IN  IF ~p.ok THEN [ok |-> FALSE, val |-> JUndefined, message |-> SyntaxErrorMessage]
      ELSE IF p.val.kind = "null"
        THEN [ok |-> FALSE, val |-> JUndefined, message |-> TypeErrorMessage]
      ELSE IF SectionsMissing(p.val)
        THEN [ok |-> FALSE, val |-> JUndefined, message |-> SchemaErrorMessage]
      ELSE [ok |-> TRUE, val |-> p.val, message |-> NULL]

\* a content block with the one field the dispatcher reads
Block(tag) == JObj(<<"type">>, <<JStr(tag)>>)

\* ArticleSection: a title and the blocks of the section
Section(content) == JObj(<<"title", "content">>, <<JStr("x"), JArr(content)>>)

\* ArticleData: a title and the sections
Document(sections) == JObj(<<"title", "sections">>, <<JStr("x"), JArr(sections)>>)

\* the sample document of src/constants.tsx, cut down to a title and one
\* section that holds its first block
SAMPLE_DATA == Document(<<Section(<<Block("tags")>>)>>)

\* tokens typed in the place of a value
ValueTokens == {"[", "]", "{", "}", "null", "0", Quote("x")}

RECURSIVE TokensOfLen(_)
TokensOfLen(n) ==
  IF n = 0 THEN {<<>>}
  ELSE {Append(s, t) : s \in TokensOfLen(n - 1), t \in ValueTokens}

ValueTexts == UNION {TokensOfLen(n) : n \in 0..MaxValueLen}

\* the texts the editor is given: a run of tokens alone, as the value of
\* "sections", or as the value of another key; and the sample text
EditorTexts ==
  ValueTexts
  \cup {<<"{", Quote("sections"), ":">> \o x \o <<"}">> : x \in ValueTexts}
  \cup {<<"{", Quote("title"), ":">> \o x \o <<"}">> : x \in ValueTexts}
  \cup {JSONStringify(SAMPLE_DATA)}

EditorInit ==
  /\ jsonInput = JSONStringify(SAMPLE_DATA)
  /\ parsedData = SAMPLE_DATA
  /\ editorError = NULL
  /\ editorMounted = FALSE

\* variant: a rejected input also clears the rendered document
ParseEffect_ClearsOnError(text) ==
  LET r == ParseAndValidate(text)
  IN  IF r.ok
      THEN /\ parsedData' = r.val
           /\ editorError' = NULL
      ELSE /\ editorError' = r.message
           /\ parsedData' = JNull

\* useEffect(() => { try { ... } catch (e) { setError(e.message) } }, [jsonInput])
\* run for the input text
ParseEffect(text) ==
  LET r == ParseAndValidate(text)
  IN  IF r.ok
      THEN /\ parsedData' = r.val
           /\ editorError' = NULL
      ELSE /\ editorError' = r.message
           /\ UNCHANGED parsedData

\* the first run of the effect, after the first render
EditorMount ==
  /\ ~editorMounted
  /\ editorMounted' = TRUE
  /\ ParseEffect(jsonInput)
  /\ UNCHANGED jsonInput

\* onChange of the textarea, and the effect the new jsonInput triggers
EditJson(text) ==
  /\ editorMounted
  /\ text # jsonInput
  /\ jsonInput' = text
  /\ ParseEffect(text)
  /\ UNCHANGED editorMounted

(***************************************************************************)
(* The renderer: ArticleRenderer, SectionRenderer and BlockRenderer.  An   *)
(* element is the component chosen and the block passed to it; the markup  *)
(* around it is left out.                                                  *)
(***************************************************************************)
MaxSections == 2
MaxBlocks == 2

\* what a component returns for nothing to show
NullNode == [component |-> "null", block |-> JUndefined]
Node(component, block) == [component |-> component, block |-> block]

\* block.type, undefined when the field is missing or is no string
TypeOf(block) ==
  IF GetProp(block, "type").kind = "str" THEN GetProp(block, "type").lit ELSE NULL

\* the switch of the editor's renderer: eleven cases and the default
EditorBlockRenderer(block) ==
  LET t == TypeOf(block)
  IN  CASE t = "paragraph" -> Node("ParagraphBlock", block)
        [] t = "quote" -> Node("QuoteBlock", block)
        [] t = "callout" -> Node("CalloutBlock", block)
        [] t = "list" -> Node("ListBlock", block)
        [] t = "grid" -> Node("GridBlock", block)
        [] t = "image" -> Node("ImageBlock", block)
        [] t = "stat" -> Node("StatsBlock", block)
        [] t = "tags" -> Node("TagsBlock", block)
        [] t = "timeline" -> Node("TimelineBlock", block)
        [] t = "comparison" -> Node("ComparisonBlock", block)
        [] t = "table" -> Node("TableBlock", block)
        [] OTHER -> NullNode

\* the switch of the renderer with all block types: twenty-two cases and the
\* default
BlockRenderer(block) ==
  LET t == TypeOf(block)
  IN  CASE t = "paragraph" -> Node("ParagraphBlock", block)
        [] t = "quote" -> Node("QuoteBlock", block)
        [] t = "callout" -> Node("CalloutBlock", block)
        [] t = "list" -> Node("ListBlock", block)
        [] t = "grid" -> Node("GridBlock", block)
        [] t = "image" -> Node("ImageBlock", block)
        [] t = "stat" -> Node("StatsBlock", block)
        [] t = "tags" -> Node("TagsBlock", block)
        [] t = "timeline" -> Node("TimelineBlock", block)
        [] t = "comparison" -> Node("ComparisonBlock", block)
        [] t = "table" -> Node("TableBlock", block)
        [] t = "code" -> Node("CodeBlock", block)
        [] t = "accordion" -> Node("AccordionBlock", block)
        [] t = "steps" -> Node("StepsBlock", block)
        [] t = "progress" -> Node("ProgressBlock", block)
        [] t = "highlight" -> Node("HighlightBlock", block)
        [] t = "definition" -> Node("DefinitionBlock", block)
        [] t = "proscons" -> Node("ProsConsBlock", block)
        [] t = "video" -> Node("VideoBlock", block)
        [] t = "divider" -> Node("DividerBlock", block)
        [] t = "linkcard" -> Node("LinkCardBlock", block)
        [] t = "rating" -> Node("RatingBlock", block)
        [] OTHER -> NullNode

\* the renderers in the repository: the one of the editor shell and the one
\* with all block types
\* the three copies of the renderer: src/components/ArticleRenderer.tsx,
\* src/unnamed/part_001 and the one in src/constants.tsx
Variants == {"editor", "full", "constants"}

\* the BlockRenderer of src/constants.tsx has the cases of the editor's
Dispatch(variant, block) ==
  IF variant \in {"editor", "constants"} THEN EditorBlockRenderer(block)
  ELSE BlockRenderer(block)

\* String(n) of a number below one hundred
DigitOf(d) ==
  CASE d = 0 -> "0" [] d = 1 -> "1" [] d = 2 -> "2" [] d = 3 -> "3"
    [] d = 4 -> "4" [] d = 5 -> "5" [] d = 6 -> "6" [] d = 7 -> "7"
    [] d = 8 -> "8" [] d = 9 -> "9"

NumberToString(n) ==
  IF n < 10 THEN DigitOf(n) ELSE DigitOf(n \div 10) \o DigitOf(n % 10)

\* String(n).padStart(2, '0'): one digit gets a zero in front
PadStart2(n) ==
  IF n < 10 THEN "0" \o NumberToString(n) ELSE NumberToString(n)

\* the ordinal of a section: {String(index + 1).padStart(2, '0')} in two of
\* the copies, {index + 1} in the one of src/constants.tsx
OrdinalLabel(variant, index) ==
  IF variant = "constants" THEN NumberToString(index + 1)
  ELSE PadStart2(index + 1)

\* variant: the blocks of a section come out in reverse
SectionRenderer_Reversed(variant, section, index) ==
  LET content == GetProp(section, "content").items
  IN  [label |-> OrdinalLabel(variant, index),
       title |-> GetProp(section, "title").lit,
       blocks |-> [j \in 1..Len(content) |->
                     Dispatch(variant, content[Len(content) + 1 - j])]]

\* the ordinal label, the heading and section.content.map(BlockRenderer);
\* index counts from zero
SectionRenderer(variant, section, index) ==
  LET content == GetProp(section, "content").items
  IN  [label |-> OrdinalLabel(variant, index),
       title |-> GetProp(section, "title").lit,
       blocks |-> [j \in 1..Len(content) |-> Dispatch(variant, content[j])]]

NotRendered == [rendered |-> FALSE, variant |-> NULL, of |-> JUndefined,
                sections |-> <<>>]

\* data.sections.map(SectionRenderer), with the document it was given
ArticleRenderer(variant, doc) ==
  LET sections == GetProp(doc, "sections").items
  IN  [rendered |-> TRUE, variant |-> variant, of |-> doc,
       sections |-> [i \in 1..Len(sections) |->
                       SectionRenderer(variant, sections[i], i - 1)]]

RECURSIVE SeqsUpTo(_, _)
\* the sequences over S of length at most n
SeqsUpTo(S, n) ==
  IF n = 0 THEN {<<>>}
  ELSE LET shorter == SeqsUpTo(S, n - 1)
       IN  shorter \cup {Append(q, x) : q \in shorter, x \in S}

\* block types used in documents of several sections
PaletteTypes == {"paragraph", UnknownType}

\* the documents rendered: up to MaxSections sections of up to MaxBlocks
\* blocks of the palette, and one section of up to MaxBlocks blocks of any type
Documents ==
  {Document(ss) :
     ss \in SeqsUpTo({Section(c) :
                        c \in SeqsUpTo({Block(t) : t \in PaletteTypes}, MaxBlocks)},
                     MaxSections)}
  \cup {Document(<<Section(c)>>) :
          c \in SeqsUpTo({Block(t) : t \in ArticleContentType \cup {UnknownType}},
                         MaxBlocks)}

RendererInit ==
  /\ data \in Documents
  /\ view = NotRendered

\* the renderer out of use: the other pages do not show this document
RendererIdle ==
  /\ data = SAMPLE_DATA
  /\ view = NotRendered

\* the document's JSON text is pasted into the editor
PasteDocument ==
  /\ EditJson(JSONStringify(data))
  /\ UNCHANGED rendererVars

\* <ArticleRenderer data={parsedData} /> of the editor shell
RenderEditor ==
  /\ editorMounted
  /\ parsedData.kind # "null"
  /\ view' = ArticleRenderer("editor", parsedData)
  /\ UNCHANGED <<data, editorVars>>

\* <ArticleRenderer data={articleData} /> of the task client, for the document
\* the server returned
RenderArticle ==
  /\ view' = ArticleRenderer("full", data)
  /\ UNCHANGED <<data, editorVars>>

\* the ArticleRenderer exported by src/constants.tsx, given a document
RenderConstants ==
  /\ view' = ArticleRenderer("constants", data)
  /\ UNCHANGED <<data, editorVars>>

(***************************************************************************)
(* Bold spans of a paragraph and of a list item.  A text is a sequence of  *)
(* characters.                                                             *)
(***************************************************************************)
MaxTextLen == 10

TextChars == {"a", "*", "\n"}

\* the characters the pattern's dot does not match
LineTerminators == {"\n"}

Texts == SeqsUpTo(TextChars, MaxTextLen)

Marker == <<"*", "*">>

\* text.startsWith('**')
StartsWithMarker(text) == Len(text) >= 2 /\ SubSeq(text, 1, 2) = Marker

\* text.endsWith('**')
EndsWithMarker(text) ==
  Len(text) >= 2 /\ SubSeq(text, Len(text) - 1, Len(text)) = Marker

\* text.slice(2, -2)
Slice2(text) == SubSeq(text, 3, Len(text) - 2)

\* the lengths k of a run of characters after the marker at q that the dot
\* matches and that a second marker follows
LazyRuns(text, q) ==
  {k \in 0..Len(text) :
     /\ q + 3 + k <= Len(text)
     /\ SubSeq(text, q + 2 + k, q + 3 + k) = Marker
     /\ \A m \in (q + 2)..(q + 1 + k) : text[m] \notin LineTerminators}

\* variant: the quantifier is greedy and takes the longest run
MatchAt_Greedy(text, q) ==
  IF q + 1 <= Len(text) /\ SubSeq(text, q, q + 1) = Marker /\ LazyRuns(text, q) # {}
  THEN 4 + CHOOSE k \in LazyRuns(text, q) : \A other \in LazyRuns(text, q) : k >= other
  ELSE 0

\* the length of the match of /\*\*.*?\*\*/ that starts at q, 0 for none; the
\* lazy quantifier takes the shortest run
MatchAt(text, q) ==
  IF q + 1 <= Len(text) /\ SubSeq(text, q, q + 1) = Marker /\ LazyRuns(text, q) # {}
  THEN 4 + CHOOSE k \in LazyRuns(text, q) : \A other \in LazyRuns(text, q) : k <= other
  ELSE 0

RECURSIVE SplitFrom(_, _, _)
\* the rest of text.split(/(\*\*.*?\*\*)/g): p is the start of the piece not
\* yet emitted, q the place where a match is tried next
SplitFrom(text, p, q) ==
  IF q > Len(text) THEN <<SubSeq(text, p, Len(text))>>
  ELSE IF MatchAt(text, q) > 0
    THEN <<SubSeq(text, p, q - 1), SubSeq(text, q, q + MatchAt(text, q) - 1)>>
         \o SplitFrom(text, q + MatchAt(text, q), q + MatchAt(text, q))
  ELSE SplitFrom(text, p, q + 1)

\* text.split(/(\*\*.*?\*\*)/g): the pieces between the matches and the
\* matches themselves, in order
Split(text) == SplitFrom(text, 1, 1)

PlainSpan(text) == [element |-> "text", text |-> text]
ElementSpan(element, text) == [element |-> element, text |-> text]

\* parts.map(...): a part that starts and ends with the marker becomes the
\* element around part.slice(2, -2), any other part stays a string
MapParts(parts, element) ==
  [n \in 1..Len(parts) |->
     IF StartsWithMarker(parts[n]) /\ EndsWithMarker(parts[n])
     THEN ElementSpan(element, Slice2(parts[n]))
     ELSE PlainSpan(parts[n])]

\* parseBold of ParagraphBlock: emphasis is a <strong>
parseBold(str) == MapParts(Split(str), "strong")

\* the content of an item of ListBlock: emphasis is a <span>
ListItemContent(item) == MapParts(Split(item), "span")

NoSpans == <<ElementSpan("none", <<>>)>>

TextInit ==
  /\ markup \in Texts
  /\ spans = NoSpans

\* no paragraph and no list item on the page
TextIdle ==
  /\ markup = <<>>
  /\ spans = NoSpans

\* <ParagraphBlock text={markup} /> is rendered
RenderParagraph ==
  /\ spans' = parseBold(markup)
  /\ UNCHANGED markup

\* a <ListBlock> with the item markup is rendered
RenderListItem ==
  /\ spans' = ListItemContent(markup)
  /\ UNCHANGED markup

(***************************************************************************)
(* Numbers of the image block.  A Number is an IEEE 754 double: a positive *)
(* one is 0.b1 b2 ... b53 (binary, b1 = 1) times 2^exp; every operation    *)
(* rounds its exact result to the nearest such number, ties to even.       *)
(***************************************************************************)
MantissaBits == 53

RECURSIVE Pow2(_)
Pow2(n) == IF n = 0 THEN 1 ELSE 2 * Pow2(n - 1)

Zeros(n) == [i \in 1..n |-> 0]
Ones(n) == [i \in 1..n |-> 1]

Double(exp, bits) == [exp |-> exp, bits |-> bits]

\* 0, below every positive number
DoubleZero == Double(-2000, Zeros(MantissaBits))

\* Number.MAX_VALUE
MAX_VALUE == Double(1024, Ones(MantissaBits))

\* the bit string plus one at its last place: a bit flips when all later bits
\* are set; the carry out of the first place is dropped
Increment(bits) ==
  [i \in 1..Len(bits) |->
     IF \A j \in (i + 1)..Len(bits) : bits[j] = 1 THEN 1 - bits[i] ELSE bits[i]]

\* round to nearest, ties to even: bits are the first MantissaBits bits of the
\* exact result, guard the next one, sticky whether any later bit is set
RoundNearestEven(exp, bits, guard, sticky) ==
  IF guard = 1 /\ (sticky \/ bits[MantissaBits] = 1)
  THEN IF bits = Ones(MantissaBits)
       THEN Double(exp + 1, <<1>> \o Zeros(MantissaBits - 1))
       ELSE Double(exp, Increment(bits))
  ELSE Double(exp, bits)

RECURSIVE Remainder(_, _, _)
\* what is left of r < den after n binary places of r / den
Remainder(r, den, n) ==
  IF n = 0 THEN r
  ELSE IF n >= 8 THEN Remainder((r * Pow2(8)) % den, den, n - 8)
  ELSE (r * Pow2(n)) % den

\* the first n binary places of r / den, for r < den: place i is the place
\* after what is left once i - 1 places are taken
QuotientBits(r, den, n) ==
  [i \in 1..n |-> IF 2 * Remainder(r, den, i - 1) >= den THEN 1 ELSE 0]

\* the exponent of a / b: a / b is in [2^(exp-1), 2^exp)
ExponentOf(a, b) ==
  IF a >= b
  THEN CHOOSE e \in 1..20 : b * Pow2(e - 1) <= a /\ a < b * Pow2(e)
  ELSE 0 - (CHOOSE k \in 0..20 : a * Pow2(k) < b /\ b <= a * Pow2(k + 1))

\* a / b for whole numbers a, b >= 1
Divide(a, b) ==
  LET exp == ExponentOf(a, b)
      num == IF exp >= 0 THEN a ELSE a * Pow2(0 - exp)
      den == IF exp >= 0 THEN b * Pow2(exp) ELSE b
      rest == Remainder(num, den, MantissaBits)
      guard == IF 2 * rest >= den THEN 1 ELSE 0
      sticky == 2 * rest - guard * den # 0
  IN  RoundNearestEven(exp, QuotientBits(num, den, MantissaBits), guard, sticky)

\* x < y, for numbers that are not negative
Less(x, y) ==
  \/ x.exp < y.exp
  \/ /\ x.exp = y.exp
     /\ \E i \in 1..MantissaBits :
          /\ x.bits[i] < y.bits[i]
          /\ \A j \in 1..(i - 1) : x.bits[j] = y.bits[j]

\* a - b for bit strings of one length with a >= b: place i borrows when the
\* places after it hold less in a than in b
SubtractBits(a, b) ==
  LET borrow(i) == \E k \in (i + 1)..Len(a) :
                     /\ a[k] < b[k]
                     /\ \A j \in (i + 1)..(k - 1) : a[j] = b[j]
  IN  [i \in 1..Len(a) |-> (a[i] - b[i] - (IF borrow(i) THEN 1 ELSE 0) + 2) % 2]

\* Math.abs(x - y) for positive x and y: the exact difference, rounded
AbsDifference(x, y) ==
  LET hi == IF Less(x, y) THEN y ELSE x
      lo == IF Less(x, y) THEN x ELSE y
      shift == hi.exp - lo.exp
      len == MantissaBits + shift
      exact == SubtractBits(hi.bits \o Zeros(shift), Zeros(shift) \o lo.bits)
      lead == CHOOSE z \in 0..len :
                /\ \A i \in 1..z : exact[i] = 0
                /\ z < len => exact[z + 1] = 1
      kept == SubSeq(exact, lead + 1, len) \o Zeros(MantissaBits + 2)
  IN  IF lead = len THEN DoubleZero
      ELSE RoundNearestEven(hi.exp - lead,
                            SubSeq(kept, 1, MantissaBits),
                            kept[MantissaBits + 1],
                            \E i \in (MantissaBits + 2)..Len(kept) : kept[i] = 1)

(***************************************************************************)
(* ImageBlock: the aspect of the frame follows the loaded image.           *)
(***************************************************************************)
MaxDim == 18

DefaultAspect == "16 / 9"

\* the presets in the order of their declaration; value is num / den
ratioPresets ==
  << [label |-> "1 / 1", num |-> 1, den |-> 1],
     [label |-> "4 / 3", num |-> 4, den |-> 3],
     [label |-> "3 / 2", num |-> 3, den |-> 2],
     [label |-> "16 / 9", num |-> 16, den |-> 9],
     [label |-> "21 / 9", num |-> 21, den |-> 9],
     [label |-> "3 / 4", num |-> 3, den |-> 4],
     [label |-> "2 / 3", num |-> 2, den |-> 3],
     [label |-> "9 / 16", num |-> 9, den |-> 16] >>

\* preset.value
ValueOf(preset) == Divide(preset.num, preset.den)

\* the callback of reduce: diff < best.diff ? { diff, label } : best
ReduceStep(best, preset, ratio) ==
  LET diff == AbsDifference(ValueOf(preset), ratio)
  IN  IF Less(diff, best.diff) THEN [diff |-> diff, label |-> preset.label] ELSE best

RECURSIVE Reduce(_, _, _)
\* ratioPresets.reduce(callback, best) from preset i on
Reduce(i, best, ratio) ==
  IF i > Len(ratioPresets) THEN best
  ELSE Reduce(i + 1, ReduceStep(best, ratioPresets[i], ratio), ratio)

\* nearest.label for an image of the given natural size
NearestLabel(width, height) ==
  Reduce(1, [diff |-> MAX_VALUE, label |-> DefaultAspect], Divide(width, height)).label

Sizes == [width : 0..MaxDim, height : 0..MaxDim]

ImageInit ==
  /\ aspect = DefaultAspect
  /\ natural \in Sizes
  /\ loadEvent = "none"

\* no image block on the page
ImageIdle ==
  /\ aspect = DefaultAspect
  /\ natural = [width |-> 0, height |-> 0]
  /\ loadEvent = "none"

\* onLoad of the <img>
handleLoad ==
  /\ IF natural.width = 0 \/ natural.height = 0
     THEN /\ loadEvent' = "skipped"
          /\ UNCHANGED aspect
     ELSE /\ loadEvent' = "set"
          /\ aspect' = NearestLabel(natural.width, natural.height)
  /\ UNCHANGED natural

\* the block is rendered with another src: the <img> takes another picture
\* and keeps the state of the block
ChangeSrc(size) ==
  /\ size # natural
  /\ natural' = size
  /\ loadEvent' = "none"
  /\ UNCHANGED aspect

(***************************************************************************)
(* AccordionBlock: one index, or null, says which item is open.            *)
(***************************************************************************)
MaxItems == 10

\* the values of openIndex: null, or the index idx of an item
NullIndex == [null |-> TRUE, idx |-> 0]
Index(idx) == [null |-> FALSE, idx |-> idx]

\* variant: every item from the open one on shows its answer
AccordionView_FromIndex(open, count) ==
  [idx \in 0..(count - 1) |-> ~open.null /\ open.idx <= idx]

\* openIndex === idx, the condition under which the answer of item idx is
\* rendered, for every item of the block
AccordionView(open, count) == [idx \in 0..(count - 1) |-> open = Index(idx)]

NotClicked == [any |-> FALSE, idx |-> 0, wasOpen |-> FALSE]

AccordionInit ==
  /\ itemCount \in 0..MaxItems
  /\ openIndex = Index(0)
  /\ shown = AccordionView(Index(0), itemCount)
  /\ clicked = NotClicked

\* no accordion block on the page
AccordionIdle ==
  /\ itemCount = 0
  /\ openIndex = Index(0)
  /\ shown = AccordionView(Index(0), 0)
  /\ clicked = NotClicked

\* variant: a click on the open item leaves it open
NextOpenIndex_NeverCloses(open, idx) == Index(idx)

\* openIndex === idx ? null : idx
NextOpenIndex(open, idx) == IF open = Index(idx) THEN NullIndex ELSE Index(idx)

\* onClick of the header of item idx, and the render that follows
ToggleItem(idx) ==
  /\ idx \in 0..(itemCount - 1)
  /\ openIndex' = NextOpenIndex(openIndex, idx)
  /\ shown' = AccordionView(openIndex', itemCount)
  /\ clicked' = [any |-> TRUE, idx |-> idx, wasOpen |-> shown[idx]]
  /\ UNCHANGED itemCount

(***************************************************************************)
(* The copy buttons.  handleCopy of CodeBlock awaits the clipboard, the    *)
(* one of PromptModal does not; both start a timer that is never cleared.  *)
(***************************************************************************)
MaxCopies == 3

\* the delay of setTimeout(() => setCopied(false), 2000), in milliseconds
CopiedTimeout == 2000

\* the step of the clock
Tick == CopiedTimeout \div 2

\* sinceCopy when setCopied(true) ran long ago or never
LongAgo == CopiedTimeout + Tick

Widgets == {"CodeBlock", "PromptModal"}

CopyInit ==
  /\ widget \in Widgets
  /\ copied = FALSE
  /\ timers = <<>>
  /\ writes = 0
  /\ sinceCopy = LongAgo
  /\ copies = 0

\* no copy button on the page
CopyIdle ==
  /\ widget = "CodeBlock"
  /\ copied = FALSE
  /\ timers = <<>>
  /\ writes = 0
  /\ sinceCopy = LongAgo
  /\ copies = 0

\* setCopied(true); setTimeout(() => setCopied(false), 2000)
Acknowledge ==
  /\ copied' = TRUE
  /\ timers' = Append(timers, CopiedTimeout)
  /\ sinceCopy' = 0

\* handleCopy of PromptModal: the write is not awaited
handleCopyPrompt ==
  /\ widget = "PromptModal"
  /\ copies < MaxCopies
  /\ copies' = copies + 1
  /\ Acknowledge
  /\ UNCHANGED <<widget, writes>>

\* handleCopy of CodeBlock up to its await
handleCopyCode ==
  /\ widget = "CodeBlock"
  /\ copies < MaxCopies
  /\ copies' = copies + 1
  /\ writes' = writes + 1
  /\ UNCHANGED <<widget, copied, timers, sinceCopy>>

\* the awaited write succeeded: handleCopy of CodeBlock goes on
WriteResolved ==
  /\ writes > 0
  /\ writes' = writes - 1
  /\ Acknowledge
  /\ UNCHANGED <<widget, copies>>

\* the awaited write failed: handleCopy of CodeBlock ends with the rejection
WriteRejected ==
  /\ writes > 0
  /\ writes' = writes - 1
  /\ UNCHANGED <<widget, copied, timers, sinceCopy, copies>>

\* the timer that is due runs its callback: setCopied(false)
TimerDue ==
  /\ timers # <<>>
  /\ Head(timers) = 0
  /\ timers' = Tail(timers)
  /\ copied' = FALSE
  /\ UNCHANGED <<widget, writes, sinceCopy, copies>>

\* time passes; a timer that is due runs first
ClockTick ==
  /\ \A n \in 1..Len(timers) : timers[n] > 0
  /\ timers' = [n \in 1..Len(timers) |-> timers[n] - Tick]
  /\ sinceCopy' = IF sinceCopy < LongAgo THEN sinceCopy + Tick ELSE LongAgo
  /\ timers # <<>> \/ sinceCopy < LongAgo
  /\ UNCHANGED <<widget, copied, writes, copies>>

(***************************************************************************)
(* ComparisonBlock and TableBlock: the header and one run of cells per row.*)
(***************************************************************************)
MaxColumns == 2
MaxRows == 2

CellTexts == {"x", "y"}

\* a rendered cell: the element and its text
Cell(element, text) == [element |-> element, text |-> text]

\* variant: the label cell of a row is left out
ComparisonCells_NoLabel(row) ==
  [j \in 1..Len(row.values) |-> Cell("value", row.values[j])]

\* the fragment of a row: the label cell and row.values.map(...)
ComparisonCells(row) ==
  <<Cell("label", row.label)>>
    \o [j \in 1..Len(row.values) |-> Cell("value", row.values[j])]

\* the grid: the corner cell (a fixed caption), columns.map(...), rows.map(...)
ComparisonBlock(columns, rows) ==
  [head |-> <<Cell("corner", "item")>>
              \o [j \in 1..Len(columns) |-> Cell("column", columns[j])],
   body |-> [i \in 1..Len(rows) |-> ComparisonCells(rows[i])]]

\* row.map(cell => <td>)
TableCells(row) == [j \in 1..Len(row) |-> Cell("td", row[j])]

\* <thead> of headers.map(...), <tbody> of rows.map(...)
TableBlock(headers, rows) ==
  [head |-> [j \in 1..Len(headers) |-> Cell("th", headers[j])],
   body |-> [i \in 1..Len(rows) |-> TableCells(rows[i])]]

\* the first n column titles
Titles(n) == SubSeq(<<"c1", "c2", "c3", "c4">>, 1, n)

\* ComparisonContent: the rows need not have one value per column
ComparisonBlocks ==
  {[type |-> "comparison", columns |-> Titles(n), rows |-> rows] :
     n \in 0..MaxColumns,
     rows \in SeqsUpTo({[label |-> "l", values |-> v] :
                          v \in SeqsUpTo(CellTexts, MaxColumns)}, MaxRows)}

\* TableContent: rows is string[][], label is not a field of it
TableBlocks ==
  {[type |-> "table", headers |-> Titles(n), rows |-> rows] :
     n \in 0..MaxColumns,
     rows \in SeqsUpTo(SeqsUpTo(CellTexts, MaxColumns), MaxRows)}

NoCells == [rendered |-> FALSE, head |-> <<>>, body |-> <<>>]

Rendered(tree) == [rendered |-> TRUE, head |-> tree.head, body |-> tree.body]

GridInit ==
  /\ \/ grid \in ComparisonBlocks
     \/ grid \in TableBlocks
  /\ cells = NoCells

\* no comparison and no table on the page
GridIdle ==
  /\ grid = [type |-> "table", headers |-> <<>>, rows |-> <<>>]
  /\ cells = NoCells

\* case 'comparison': <ComparisonBlock columns={block.columns} rows={block.rows} />
RenderComparison ==
  /\ grid.type = "comparison"
  /\ cells' = Rendered(ComparisonBlock(grid.columns, grid.rows))
  /\ UNCHANGED grid

\* case 'table': <TableBlock headers={block.headers} rows={block.rows} />
RenderTable ==
  /\ grid.type = "table"
  /\ cells' = Rendered(TableBlock(grid.headers, grid.rows))
  /\ UNCHANGED grid

(***************************************************************************)
(* The popup: init(), the click handler of the analyze button and the      *)
(* save button.  A url is a sequence of characters.                        *)
(***************************************************************************)
MaxClicks == 2
MaxTabUrlLen == 2

\* 'https://infographic.muserquantity.cn'
DEFAULT_SERVER_URL ==
  <<"h", "t", "t", "p", "s", ":", "/", "/", "i", "n", "f", "o", "g", "r", "a",
    "p", "h", "i", "c", ".", "m", "u", "s", "e", "r", "q", "u", "a", "n", "t",
    "i", "t", "y", ".", "c", "n">>

\* the value of a key that chrome.storage.sync does not hold, where a url
\* could be
Undefined == <<"undefined">>

\* a flag as chrome.storage.sync holds it: "undefined" when it is not stored
Flag(b) == IF b THEN "true" ELSE "false"

\* the characters of the tab urls of the model
UrlChars == {"a", "/", "%"}

\* a page of the browser itself
ChromePage == <<"c", "h", "r", "o", "m", "e", ":", "/", "/", "a">>

\* the tab urls: short texts and one page that cannot be analysed
TabUrls == SeqsUpTo(UrlChars, MaxTabUrlLen) \cup {ChromePage}

\* no tab, or the query failed
NoTab == <<"none">>

\* the server urls a user types into the settings
ServerTexts ==
  {<<>>, <<"s">>, <<"s", "/">>, <<"s", "/", "/">>, <<" ", "s", "/", " ">>}

\* String.prototype.startsWith
StartsWith(text, prefix) ==
  /\ Len(text) >= Len(prefix)
  /\ SubSeq(text, 1, Len(prefix)) = prefix

\* variant: every trailing slash goes
RemoveTrailingSlash_All(text) ==
  LET keep == {n \in 0..Len(text) : \A i \in (n + 1)..Len(text) : text[i] = "/"}
  IN  SubSeq(text, 1, CHOOSE n \in keep : \A m \in keep : n <= m)

\* text.replace(/\/$/, ''): the slash at the end, if there is one, goes
RemoveTrailingSlash(text) ==
  IF Len(text) > 0 /\ text[Len(text)] = "/"
  THEN SubSeq(text, 1, Len(text) - 1)
  ELSE text

\* result.serverUrl || DEFAULT_SERVER_URL
ServerUrlOr(value) ==
  IF value = Undefined \/ value = <<>> THEN DEFAULT_SERVER_URL ELSE value

\* the characters encodeURIComponent leaves as they are, among those of the model
Unreserved == {"a", "s", "."}

\* the escape of a character: % and the two hex digits of its code
Escape(c) ==
  CASE c = "/" -> <<"%", "2", "F">>
    [] c = "%" -> <<"%", "2", "5">>
    [] c = ":" -> <<"%", "3", "A">>
    [] c = " " -> <<"%", "2", "0">>

RECURSIVE encodeURIComponent(_)
encodeURIComponent(text) ==
  IF text = <<>> THEN <<>>
  ELSE (IF Head(text) \in Unreserved THEN <<Head(text)>> ELSE Escape(Head(text)))
         \o encodeURIComponent(Tail(text))

\* `${serverUrl}/?url=${encodeURIComponent(currentTabUrl)}`
TargetUrl(serverUrl, tabUrl) ==
  serverUrl \o <<"/", "?", "u", "r", "l", "=">> \o encodeURIComponent(tabUrl)

\* the character of an escape
Unescape(hex) ==
  CASE hex = <<"2", "F">> -> "/"
    [] hex = <<"2", "5">> -> "%"
    [] hex = <<"3", "A">> -> ":"
    [] hex = <<"2", "0">> -> " "
    [] OTHER -> "?"

RECURSIVE PercentDecode(_)
\* what URLSearchParams makes of the value of a parameter
PercentDecode(text) ==
  IF text = <<>> THEN <<>>
  ELSE IF Head(text) = "%" /\ Len(text) >= 3
    THEN <<Unescape(SubSeq(text, 2, 3))>> \o PercentDecode(SubSeq(text, 4, Len(text)))
  ELSE <<Head(text)>> \o PercentDecode(Tail(text))

\* new URLSearchParams(window.location.search) of a page opened at target:
\* the query starts after the first '?', and the tab urls hold no '&'
SearchParams(target) ==
  LET marks == {i \in 1..Len(target) : target[i] = "?"}
      start == CHOOSE i \in marks : \A j \in marks : i <= j
      query == SubSeq(target, start + 1, Len(target))
  IN  IF marks # {} /\ StartsWith(query, <<"u", "r", "l", "=">>)
      THEN [url |-> PercentDecode(SubSeq(query, 5, Len(query))), refresh |-> NULL]
      ELSE [url |-> NullStr, refresh |-> NULL]

NotOpened == [saved |-> Undefined, url |-> <<>>, translate |-> FALSE]

PopupStep(op, url) == [op |-> op, url |-> url]

\* the popup as it is opened; the box is ticked or not as popup.html says
PopupInit ==
  /\ activeTab \in TabUrls \cup {NoTab}
  /\ currentTabUrl = <<>>
  /\ analyzeDisabled = FALSE
  /\ translateCheck \in BOOLEAN
  /\ storage \in [serverUrl : {Undefined, <<"s">>, <<"s", "/">>},
                  translateToChinese : {"undefined", "true", "false"}]
  /\ popupPc = "query"
  /\ handlers = <<>>
  /\ tabs = <<>>
  /\ closed = FALSE
  /\ opened = NotOpened
  /\ popStep = PopupStep("open", <<>>)

\* no popup
PopupIdle ==
  /\ activeTab = NoTab
  /\ currentTabUrl = <<>>
  /\ analyzeDisabled = FALSE
  /\ translateCheck = TRUE
  /\ storage = [serverUrl |-> Undefined, translateToChinese |-> "undefined"]
  /\ popupPc = "query"
  /\ handlers = <<>>
  /\ tabs = <<>>
  /\ closed = FALSE
  /\ opened = NotOpened
  /\ popStep = PopupStep("open", <<>>)

\* init(), first part: chrome.tabs.query settles
TabQuerySettled ==
  /\ ~closed
  /\ popupPc = "query"
  /\ popupPc' = "settings"
  /\ IF activeTab # NoTab /\ activeTab # <<>>
     THEN /\ currentTabUrl' = activeTab
          /\ analyzeDisabled' = (analyzeDisabled \/ StartsWith(activeTab, SubSeq(ChromePage, 1, 9)))
     ELSE /\ analyzeDisabled' = TRUE
          /\ UNCHANGED currentTabUrl
  /\ popStep' = PopupStep("TabQuerySettled", currentTabUrl)
  /\ UNCHANGED <<activeTab, translateCheck, storage, handlers, tabs, closed, opened>>

\* init(), second part: the saved settings are put into the form
SettingsLoaded ==
  /\ ~closed
  /\ popupPc = "settings"
  /\ popupPc' = "ready"
  /\ translateCheck' = (storage.translateToChinese # Flag(FALSE))
  /\ popStep' = PopupStep("SettingsLoaded", currentTabUrl)
  /\ UNCHANGED <<activeTab, currentTabUrl, analyzeDisabled, storage, handlers,
                 tabs, closed, opened>>

\* the user ticks or unticks the translate box
ToggleTranslate ==
  /\ ~closed
  /\ translateCheck' = ~translateCheck
  /\ popStep' = PopupStep("ToggleTranslate", currentTabUrl)
  /\ UNCHANGED <<activeTab, currentTabUrl, analyzeDisabled, storage, popupPc,
                 handlers, tabs, closed, opened>>

\* the save button: serverUrlEl.value.trim() || DEFAULT_SERVER_URL is stored
SaveSettings(text) ==
  /\ ~closed
  /\ storage' = [storage EXCEPT !.serverUrl = ServerUrlOr(Trim(text))]
  /\ popStep' = PopupStep("SaveSettings", currentTabUrl)
  /\ UNCHANGED <<activeTab, currentTabUrl, analyzeDisabled, translateCheck,
                 popupPc, handlers, tabs, closed, opened>>

\* a click on the analyze button: nothing without a tab url, else the
\* handler asks the storage for serverUrl
ClickAnalyze ==
  /\ ~closed
  /\ ~analyzeDisabled
  /\ Len(handlers) < MaxClicks
  /\ popStep' = PopupStep("ClickAnalyze", currentTabUrl)
  /\ IF currentTabUrl = <<>>
     THEN UNCHANGED handlers
     ELSE handlers' = Append(handlers, [pc |-> "get", saved |-> Undefined,
                                        serverUrl |-> <<>>, translate |-> FALSE])
  /\ UNCHANGED <<activeTab, currentTabUrl, analyzeDisabled, translateCheck,
                 storage, popupPc, tabs, closed, opened>>

\* storage.get settles: the server url is made, the box is read and
\* storage.set({ translateToChinese: translate }) is called
GetSettled(h) ==
  /\ ~closed
  /\ h \in DOMAIN handlers
  /\ handlers[h].pc = "get"
  /\ handlers' = [handlers EXCEPT ![h] =
                    [pc |-> "set",
                     saved |-> storage.serverUrl,
                     serverUrl |-> RemoveTrailingSlash(ServerUrlOr(storage.serverUrl)),
                     translate |-> translateCheck]]
  /\ popStep' = PopupStep("GetSettled", currentTabUrl)
  /\ UNCHANGED <<activeTab, currentTabUrl, analyzeDisabled, translateCheck,
                 storage, popupPc, tabs, closed, opened>>

\* storage.set settles, the choice is stored: the tab is created and the
\* popup closes
SetSettled(h) ==
  /\ ~closed
  /\ h \in DOMAIN handlers
  /\ handlers[h].pc = "set"
  /\ tabs' = Append(tabs, TargetUrl(handlers[h].serverUrl, currentTabUrl))
  /\ closed' = TRUE
  /\ handlers' = [handlers EXCEPT ![h].pc = "done"]
  /\ opened' = [saved |-> handlers[h].saved, url |-> currentTabUrl,
                translate |-> handlers[h].translate]
  /\ storage' = [storage EXCEPT
                   !.translateToChinese = Flag(handlers[h].translate)]
  /\ popStep' = PopupStep("SetSettled", currentTabUrl)
  /\ UNCHANGED <<activeTab, currentTabUrl, analyzeDisabled, translateCheck,
                 popupPc>>

\* the new tab loads the page of the task client at the url it was given
PageLoads ==
  /\ tabs # <<>>
  /\ ~mounted
  /\ popStep.op # "PageLoads"
  /\ location' = SearchParams(tabs[Len(tabs)])
  /\ popStep' = PopupStep("PageLoads", currentTabUrl)
  /\ UNCHANGED <<articleData, loading, error, taskStatus, articleUrl, inputUrl,
                 showInput, translateToChinese, mounted, loops, nextSub, stale,
                 lastStep, lastPost>>
  /\ UNCHANGED <<activeTab, currentTabUrl, analyzeDisabled, translateCheck,
                 storage, popupPc, handlers, tabs, closed, opened>>

(***************************************************************************)
(* RatingBlock.  A score is a whole number of parts of a star: Resolution  *)
(* parts make one star, so that 4.5 is 18 parts at a Resolution of 4.      *)
(***************************************************************************)
Resolution == 4
MaxStars == 7

\* maxScore: number = 5, and item.maxScore || 5
DefaultMaxScore == 5

\* Math.floor of a number of parts, in stars
Floor(parts) == parts \div Resolution

\* score % 1 >= 0.5
HasHalfStar(parts) == 2 * (parts % Resolution) >= Resolution

\* n icons of one kind
Icons(kind, n) == [i \in 1..n |-> kind]

\* item.maxScore || 5, in parts: a missing maxScore and 0 give the default
MaxScoreOf(item) ==
  IF item.hasMaxScore /\ item.maxScore # 0 THEN item.maxScore
  ELSE DefaultMaxScore * Resolution

\* renderStars(score, maxScore): the full stars, the half star, the empty
\* stars; a loop whose bound is negative adds nothing
renderStars(score, maxScore) ==
  LET fullStars == Floor(score)
      hasHalfStar == HasHalfStar(score)
      emptyStars == Floor(maxScore) - fullStars - (IF hasHalfStar THEN 1 ELSE 0)
  IN  Icons("full", fullStars)
        \o (IF hasHalfStar THEN <<"half">> ELSE <<>>)
        \o Icons("empty", IF emptyStars > 0 THEN emptyStars ELSE 0)

\* RatingItem: score and the optional maxScore, both in parts
RatingItems ==
  [score : 0..(MaxStars * Resolution),
   hasMaxScore : BOOLEAN,
   maxScore : 0..(MaxStars * Resolution)]

NoStars == <<"none">>

RatingInit ==
  /\ rating \in {item \in RatingItems : item.hasMaxScore \/ item.maxScore = 0}
  /\ stars = NoStars

\* no rating block on the page
RatingIdle ==
  /\ rating = [score |-> 0, hasMaxScore |-> FALSE, maxScore |-> 0]
  /\ stars = NoStars

\* items.map: the row of the item is rendered for the first time
RenderRating ==
  /\ stars = NoStars
  /\ stars' = renderStars(rating.score, MaxScoreOf(rating))
  /\ UNCHANGED rating

\* the block is given another item and its row is rendered again
ChangeRating(item) ==
  /\ stars # NoStars
  /\ item.hasMaxScore \/ item.maxScore = 0
  /\ rating' = item
  /\ stars' = renderStars(item.score, MaxScoreOf(item))

Init ==
  ClientInit /\ EditorInit /\ RendererIdle /\ TextIdle /\ ImageIdle
    /\ AccordionIdle /\ CopyIdle
    /\ GridIdle
    /\ PopupIdle
    /\ RatingIdle

\* the task client page: the editor is a different page and stays as constructed
Next ==
  \/ Mount /\ UNCHANGED notClientVars
  \/ \E s \in Strs : SetInputUrl(s) /\ UNCHANGED notClientVars
  \/ \E b \in BOOLEAN : SetTranslateToChinese(b) /\ UNCHANGED notClientVars
  \/ handleSubmit /\ UNCHANGED notClientVars
  \/ handleRefresh /\ UNCHANGED notClientVars
  \/ handleBack /\ UNCHANGED notClientVars
  \/ \E url \in Strs : handleAnalyzeLink(url) /\ UNCHANGED notClientVars
  \/ \E i \in Live, r \in Responses : CreateResponse(i, r) /\ UNCHANGED notClientVars
  \/ \E i \in Live, r \in Responses : PollResponse(i, r) /\ UNCHANGED notClientVars
  \/ \E i \in Live : TimerFired(i) /\ UNCHANGED notClientVars

Spec == Init /\ [][Next]_vars

NextEditor ==
  \/ EditorMount /\ UNCHANGED notEditorVars
  \/ \E text \in EditorTexts : EditJson(text) /\ UNCHANGED notEditorVars

\* the editor alone: the task client is a different page and stays as constructed
InitEditor ==
  /\ ClientInit
  /\ location = [url |-> NullStr, refresh |-> NULL]
  /\ EditorInit
  /\ RendererIdle
  /\ TextIdle
  /\ ImageIdle
  /\ AccordionIdle
  /\ CopyIdle
  /\ GridIdle
  /\ PopupIdle
  /\ RatingIdle

SpecEditor == InitEditor /\ [][NextEditor]_vars

\* the renderer, fed by the editor and by the task client
InitRender ==
  /\ ClientInit
  /\ location = [url |-> NullStr, refresh |-> NULL]
  /\ EditorInit
  /\ RendererInit
  /\ TextIdle
  /\ ImageIdle
  /\ AccordionIdle
  /\ CopyIdle
  /\ GridIdle
  /\ PopupIdle
  /\ RatingIdle

NextRender ==
  \/ EditorMount /\ UNCHANGED notEditorVars
  \/ PasteDocument /\ UNCHANGED notRendererVars
  \/ RenderEditor /\ UNCHANGED notRendererVars
  \/ RenderArticle /\ UNCHANGED notRendererVars
  \/ RenderConstants /\ UNCHANGED notRendererVars

SpecRender == InitRender /\ [][NextRender]_vars

\* the bold spans of one text
InitText ==
  /\ ClientInit
  /\ location = [url |-> NullStr, refresh |-> NULL]
  /\ EditorInit
  /\ RendererIdle
  /\ TextInit
  /\ ImageIdle
  /\ AccordionIdle
  /\ CopyIdle
  /\ GridIdle
  /\ PopupIdle
  /\ RatingIdle

NextText ==
  \/ RenderParagraph /\ UNCHANGED notTextVars
  \/ RenderListItem /\ UNCHANGED notTextVars

SpecText == InitText /\ [][NextText]_vars

\* one image block
InitImage ==
  /\ ClientInit
  /\ location = [url |-> NullStr, refresh |-> NULL]
  /\ EditorInit
  /\ RendererIdle
  /\ TextIdle
  /\ ImageInit
  /\ AccordionIdle
  /\ CopyIdle
  /\ GridIdle
  /\ PopupIdle
  /\ RatingIdle

NextImage ==
  \/ handleLoad /\ UNCHANGED notImageVars
  \/ \E size \in Sizes : ChangeSrc(size) /\ UNCHANGED notImageVars

SpecImage == InitImage /\ [][NextImage]_vars

\* one accordion block
InitAccordion ==
  /\ ClientInit
  /\ location = [url |-> NullStr, refresh |-> NULL]
  /\ EditorInit
  /\ RendererIdle
  /\ TextIdle
  /\ ImageIdle
  /\ AccordionInit
  /\ CopyIdle
  /\ GridIdle
  /\ PopupIdle
  /\ RatingIdle

NextAccordion ==
  \E idx \in 0..(MaxItems - 1) : ToggleItem(idx) /\ UNCHANGED notAccordionVars

SpecAccordion == InitAccordion /\ [][NextAccordion]_vars

\* one copy button
InitCopy ==
  /\ ClientInit
  /\ location = [url |-> NullStr, refresh |-> NULL]
  /\ EditorInit
  /\ RendererIdle
  /\ TextIdle
  /\ ImageIdle
  /\ AccordionIdle
  /\ CopyInit
  /\ GridIdle
  /\ PopupIdle
  /\ RatingIdle

NextCopy ==
  \/ handleCopyPrompt /\ UNCHANGED notCopyVars
  \/ handleCopyCode /\ UNCHANGED notCopyVars
  \/ WriteResolved /\ UNCHANGED notCopyVars
  \/ WriteRejected /\ UNCHANGED notCopyVars
  \/ TimerDue /\ UNCHANGED notCopyVars
  \/ ClockTick /\ UNCHANGED notCopyVars

SpecCopy == InitCopy /\ [][NextCopy]_vars

\* one comparison block or one table block
InitGrid ==
  /\ ClientInit
  /\ location = [url |-> NullStr, refresh |-> NULL]
  /\ EditorInit
  /\ RendererIdle
  /\ TextIdle
  /\ ImageIdle
  /\ AccordionIdle
  /\ CopyIdle
  /\ GridInit
  /\ PopupIdle
  /\ RatingIdle

NextGrid ==
  \/ RenderComparison /\ UNCHANGED notGridVars
  \/ RenderTable /\ UNCHANGED notGridVars

SpecGrid == InitGrid /\ [][NextGrid]_vars

\* the popup of the extension and the page it opens
InitPopup ==
  /\ ClientInit
  /\ location = [url |-> NullStr, refresh |-> NULL]
  /\ EditorInit
  /\ RendererIdle
  /\ TextIdle
  /\ ImageIdle
  /\ AccordionIdle
  /\ CopyIdle
  /\ GridIdle
  /\ PopupInit
  /\ RatingIdle

NextPopup ==
  \/ TabQuerySettled /\ UNCHANGED notPopupVars
  \/ SettingsLoaded /\ UNCHANGED notPopupVars
  \/ ToggleTranslate /\ UNCHANGED notPopupVars
  \/ \E text \in ServerTexts : SaveSettings(text) /\ UNCHANGED notPopupVars
  \/ ClickAnalyze /\ UNCHANGED notPopupVars
  \/ \E h \in 1..MaxClicks : GetSettled(h) /\ UNCHANGED notPopupVars
  \/ \E h \in 1..MaxClicks : SetSettled(h) /\ UNCHANGED notPopupVars
  \/ PageLoads /\ UNCHANGED <<editorVars, rendererVars, textVars, imageVars,
                              accordionVars, copyVars, gridVars, ratingVars>>
  \/ popStep.op = "PageLoads" /\ Mount /\ UNCHANGED notClientVars

SpecPopup == InitPopup /\ [][NextPopup]_vars

\* one item of a rating block
InitRating ==
  /\ ClientInit
  /\ location = [url |-> NullStr, refresh |-> NULL]
  /\ EditorInit
  /\ RendererIdle
  /\ TextIdle
  /\ ImageIdle
  /\ AccordionIdle
  /\ CopyIdle
  /\ GridIdle
  /\ PopupIdle
  /\ RatingInit

NextRating ==
  \/ RenderRating /\ UNCHANGED notRatingVars
  \/ \E item \in RatingItems : ChangeRating(item) /\ UNCHANGED notRatingVars

SpecRating == InitRating /\ [][NextRating]_vars

(***************************************************************************)
(* Properties of the task client.                                          *)
(***************************************************************************)
\* the submission of the last step is no longer running
LastSubEnded == lastStep.sub \notin Live

\* the submission of the last step has a GET in flight
LastSubPolling ==
  /\ lastStep.sub \in Live
  /\ loops[lastStep.sub].pc = "awaitPoll"
  /\ loops[lastStep.sub].request.method = "GET"

\* the loop of submission i moved in this step
Stepped(i) == i \in Live /\ (i \notin Live' \/ loops'[i] # loops[i])

\* C1: a poll answered with status 'completed' and a non-null result ends
\* the loop: articleData is that result, loading is false, taskStatus is
\* null, and the submission is gone, so that it issues no further GET
\* (submission numbers are never used again).
C1_CompletedPollEndsLoop ==
  /\ (lastStep.op = "PollResponse" /\ lastStep.resp.status = "completed"
        /\ lastStep.resp.result # NULL)
       => /\ articleData = lastStep.resp.result
          /\ loading = FALSE
          /\ taskStatus = NULL
          /\ LastSubEnded
  /\ \A i \in Live : i < nextSub

C1_Witness ==
  /\ lastStep.op = "PollResponse"
  /\ lastStep.resp.status = "completed"
  /\ lastStep.resp.result = "doc2"
  /\ lastStep.polls = 5
  /\ articleData = "doc2"

\* C2: the timeout error is set only by the step that finds the attempt
\* budget used up, when exactly maxAttempts (150) GET requests have been
\* issued for the submission; that step ends the submission, and no
\* submission ever issues a 151st GET.
C2_TimeoutAfter150Polls ==
  /\ [][(error' = TimeoutMessage /\ error # TimeoutMessage)
          => /\ lastStep'.op = "TimerFired"
             /\ lastStep'.polls = 150
             /\ lastStep'.sub \in Live
             /\ lastStep'.sub \notin Live'
             /\ loading' = FALSE]_vars
  /\ []((lastStep.op = "TimerFired" /\ LastSubEnded)
          => /\ error = TimeoutMessage
             /\ lastStep.polls = 150)
  /\ [](\A i \in Live : loops[i].polls <= 150)

C2_Witness ==
  /\ error = TimeoutMessage
  /\ lastStep.op = "TimerFired"
  /\ lastStep.polls = 150
  /\ Live = {}

C4_FailedTaskEndsLoop ==
  (lastStep.op \in {"CreateResponse", "PollResponse"}
     /\ lastStep.resp.status = "failed")
    => /\ LastSubEnded
       /\ loading = FALSE
       /\ error = IF lastStep.resp.error \in {NULL, ""}
                  THEN "Task failed"
                  ELSE lastStep.resp.error

C4_Witness ==
  /\ lastStep.op = "PollResponse"
  /\ lastStep.resp.status = "failed"
  /\ lastStep.resp.error = ""
  /\ error = "Task failed"

\* C5: a transport failure of the create call or of a poll call (fetch
\* rejects, the response is not OK, the body does not parse) ends the
\* submission in that step with the failure's message as error; the
\* submission being gone, nothing is issued for it again.
C5_TransportFailureEndsLoop ==
  (lastStep.op \in {"CreateResponse", "PollResponse"}
     /\ lastStep.resp.kind \in {"reject", "notOk", "badBody"})
    => /\ LastSubEnded
       /\ loading = FALSE
       /\ error = IF lastStep.resp.kind # "notOk" THEN lastStep.resp.text
                  ELSE IF lastStep.op = "CreateResponse"
                    THEN "Failed to create task: " \o lastStep.resp.text
                  ELSE "Failed to get task status: " \o lastStep.resp.text

C5_Witness ==
  /\ lastStep.op = "PollResponse"
  /\ lastStep.resp.kind = "notOk"
  /\ lastStep.polls = 3
  /\ error = "Failed to get task status: Bad Gateway"
  /\ Live = {}

\* C6: for every task id at most one GET /api/tasks/{id} is in flight, and
\* a loop with a GET in flight has had all its earlier GETs answered and
\* waited for (it has issued one more GET than it has finished iterations).
C6_OnePollInFlightPerTask ==
  /\ \A t \in TaskIds :
       Cardinality({i \in Live : /\ loops[i].request.method = "GET"
                                 /\ loops[i].request.taskId = t}) <= 1
  /\ \A i \in Live :
       loops[i].pc = "awaitPoll" => loops[i].polls = loops[i].attempt + 1

C6_Witness ==
  \E i \in Live :
    /\ i > 1
    /\ i \in stale
    /\ loops[i].request = GetRequest("t1")
    /\ loops[i].polls = 2

\* C7: once a submission has been abandoned (handleBack while it runs) it
\* issues no further GET request.
C7_NoPollAfterBack ==
  [][\A i \in stale : i \in Live' => loops'[i].polls = loops[i].polls]_vars

\* C8: once a submission has been abandoned or superseded, the steps of its
\* loop leave articleData, error, loading and taskStatus alone.
C8_StaleLoopWritesNothing ==
  [][\A i \in stale :
       Stepped(i) => UNCHANGED <<articleData, error, loading, taskStatus>>]_vars

\* a retry: handleRefresh taken on the error screen
RetryStep ==
  /\ Screen = "error"
  /\ lastStep'.op = "handleRefresh"
  /\ nextSub' = nextSub + 1

\* C19 as stated: the POST of a retry from the error screen has the URL, the
\* force-refresh flag and the translate flag of the POST of the submission
\* that failed.
C19_Original == [][RetryStep => lastPost' = lastPost]_vars

\* C19: a retry from the error screen starts a new submission whose POST has
\* the URL and the translate flag of the submission that failed, and
\* force_refresh set, whatever the flag of the failed submission was.
C19_RetryForcesRefresh ==
  [][RetryStep =>
       /\ lastPost.method = "POST"
       /\ lastPost' = [lastPost EXCEPT !.force_refresh = TRUE]
       /\ nextSub \in Live'
       /\ loops'[nextSub].request = lastPost']_vars

\* the last step was a retry of a submission that never delivered a document
\* and was sent without translation
C19_Witness ==
  /\ lastStep.op = "handleRefresh"
  /\ lastStep.sub \in Live
  /\ loops[lastStep.sub].request = lastPost
  /\ articleData = NULL
  /\ lastPost.force_refresh
  /\ ~lastPost.translate_to_chinese

C21_BackFromFailureIsFresh ==
  (lastStep.op = "handleBack" /\ lastStep.screen = "error")
    => /\ Screen = "input"
       /\ showInput = TRUE
       /\ articleData = NULL
       /\ error = NULL
       /\ articleUrl = NullStr
       /\ loading = FALSE
       /\ taskStatus = NULL
       /\ Live = {}

\* back from the error screen of a submission that was typed into the form
C21_Witness ==
  /\ lastStep.op = "handleBack"
  /\ lastStep.screen = "error"
  /\ Screen = "input"
  /\ Truthy(inputUrl)
  /\ nextSub = 2

\* C22: the effect that runs on load is the first step and runs once; it
\* starts a submission exactly when the url parameter is present and not
\* empty, and then the POST carries that URL, and force_refresh is true
\* exactly when the refresh parameter is the text 'true'; otherwise nothing
\* is started.
C22_AutoTriggerOnLoad ==
  [][lastStep'.op = "Mount" =>
       /\ lastStep.op = "init"
       /\ IF location.url # NullStr /\ location.url # <<>>
          THEN /\ Live' = {nextSub}
               /\ nextSub' = nextSub + 1
               /\ loops'[nextSub].request.method = "POST"
               /\ loops'[nextSub].request.url = location.url
               /\ loops'[nextSub].request.force_refresh
                    = (location.refresh = "true")
               /\ loops'[nextSub].posts = 1
          ELSE /\ Live' = {}
               /\ nextSub' = nextSub
               /\ loading' = FALSE
               /\ Screen' = "input"]_vars

\* the page was loaded with a url parameter and refresh=true, and the POST
\* of the submission started on load is in flight
C22_Witness ==
  /\ lastStep.op = "Mount"
  /\ lastStep.sub \in Live
  /\ loops[lastStep.sub].request = lastPost
  /\ lastPost.url = <<"a">>
  /\ lastPost.force_refresh

\* the steps that start a submission
StartingOps == {"Mount", "handleSubmit", "handleRefresh", "handleAnalyzeLink"}

\* C27: at most one submission runs at a time: loading is true exactly while
\* one runs, also after it was abandoned by the cancel button (the loading
\* screen stays), and every step that starts a submission is taken on a
\* screen shown while loading is false and leaves its submission the only one.
C27_OneSubmissionInFlight ==
  /\ Cardinality(Live) <= 1
  /\ loading <=> Live # {}
  /\ \A i \in stale : i \in Live /\ loading /\ Screen = "loading"
  /\ (lastStep.op \in StartingOps /\ lastStep.sub # 0)
       => /\ lastStep.screen \in {"input", "error", "article"}
          /\ Live \subseteq {lastStep.sub}

\* the second submission was cancelled while it polled and is still running,
\* with the loading screen on display
C27_Witness ==
  /\ lastStep.op = "handleBack"
  /\ lastStep.screen = "loading"
  /\ Live = {2}
  /\ stale = {2}
  /\ loops[2].pc = "awaitPoll"
  /\ showInput
  /\ Screen = "loading"

\* C28: taskStatus is not null only while loading is true and error is not
\* null only while loading is false; a submission ends in one step, which
\* sets loading false and taskStatus null and is either the success (the
\* result is stored, no error) or a failure (an error is stored, the timeout
\* included, and the document is left alone), never both.
C28_ClientStateConsistent ==
  /\ [](taskStatus # NULL => loading)
  /\ [](error # NULL => ~loading)
  /\ [][\A i \in Live :
          i \notin Live'
            => /\ loading /\ ~loading'
               /\ taskStatus' = NULL
               /\ lastStep'.sub = i
               /\ \/ /\ error' = NULL
                     /\ lastStep'.resp.status = "completed"
                     /\ articleData' = lastStep'.resp.result
                     /\ articleData' # NULL
                  \/ /\ error' # NULL
                     /\ articleData' = articleData]_vars

\* a submission that was cancelled ended in the timeout
C28_Witness ==
  /\ lastStep.op = "TimerFired"
  /\ LastSubEnded
  /\ error = TimeoutMessage
  /\ showInput
  /\ ~loading
  /\ taskStatus = NULL

(***************************************************************************)
(* Properties of the JSON editor.                                          *)
(***************************************************************************)
\* the value is a keyed structure whose `sections` is an array
HasArraySections(v) ==
  /\ v.kind = "obj"
  /\ \E n \in 1..Len(v.keys) : v.keys[n] = "sections" /\ v.items[n].kind = "arr"

\* the text parses to a value whose `sections` is missing, null or no array
ParsesWithoutSections(text) ==
  /\ JSONParse(text).ok
  /\ ~HasArraySections(JSONParse(text).val)

\* the texts of the editor that parse to such a value
TextsWithoutSections == {text \in EditorTexts : ParsesWithoutSections(text)}

\* C9: an edit to a text whose parsed value has `sections` missing, null or
\* not an array is rejected: error is set, parsedData keeps the value it had
\* before the edit, and jsonInput holds the rejected text.
C9_RejectedEditKeepsDocument ==
  [][(jsonInput' # jsonInput /\ jsonInput' \in TextsWithoutSections)
       => /\ editorError' # NULL
          /\ parsedData' = parsedData]_vars

C9_Witness ==
  /\ jsonInput = <<"{", Quote("sections"), ":", "null", "}">>
  /\ editorError = SchemaErrorMessage
  /\ parsedData = JObj(<<"sections">>, <<JArr(<<>>)>>)

\* C10: whenever the input parses to a value that is not a keyed structure
\* with an array-valued `sections`, the error shown is the schema error
\* ('sections' array is missing) and no other.
C10_OnlySchemaError ==
  (editorMounted /\ jsonInput \in TextsWithoutSections)
    => editorError = SchemaErrorMessage

\* C29: parsedData is never null and always has an array-valued `sections`,
\* so the preview never shows the placeholder; error is null exactly when the
\* text in the editor parses to a value with an array-valued `sections`, and
\* then parsedData is that value.
C29_EditorStateConsistent ==
  LET p == JSONParse(jsonInput)
      accepted == p.ok /\ HasArraySections(p.val)
  IN  /\ parsedData # JNull
      /\ HasArraySections(parsedData)
      /\ editorError = NULL <=> accepted
      /\ accepted => parsedData = p.val

\* an accepted edit was followed by a rejected one: the error is shown and
\* the preview keeps the document of the accepted edit
C29_Witness ==
  /\ editorMounted
  /\ editorError = SchemaErrorMessage
  /\ parsedData # SAMPLE_DATA
  /\ HasArraySections(parsedData)
  /\ JSONParse(jsonInput).ok

(***************************************************************************)
(* Properties of the renderer.                                             *)
(***************************************************************************)
\* the sections of the document the view was rendered from
ViewSections == GetProp(view.of, "sections").items

\* the blocks of section i of that document
ViewContent(i) == GetProp(ViewSections[i], "content").items

\* C11: a document whose `sections` is an array is accepted by the validator
\* (parsedData becomes the parsed value and the error is cleared), and
\* ArticleRenderer returns one section node per element of `sections`, in
\* input order, each holding one entry per block of the section, in input
\* order.
C11_AcceptedAndRenderedInOrder ==
  /\ [][(jsonInput' # jsonInput /\ JSONParse(jsonInput').ok
           /\ HasArraySections(JSONParse(jsonInput').val))
          => (parsedData' = JSONParse(jsonInput').val /\ editorError' = NULL)]_vars
  /\ [](view.rendered =>
          /\ Len(view.sections) = Len(ViewSections)
          /\ \A i \in 1..Len(ViewSections) :
               /\ Len(view.sections[i].blocks) = Len(ViewContent(i))
               /\ \A j \in 1..Len(ViewContent(i)) :
                    LET node == view.sections[i].blocks[j]
                    IN  /\ node = NullNode \/ node.block = ViewContent(i)[j]
                        /\ TypeOf(ViewContent(i)[j]) \in BasicContentTypes
                             => node # NullNode)

\* the editor accepted a pasted document of two sections, the second one with
\* two blocks of different types, and rendered it
C11_Witness ==
  /\ view.rendered
  /\ view.variant = "editor"
  /\ view.of = data
  /\ parsedData = data
  /\ editorError = NULL
  /\ jsonInput = JSONStringify(data)
  /\ data # SAMPLE_DATA
  /\ Len(ViewSections) = 2
  /\ Len(ViewContent(2)) = 2
  /\ ViewContent(2)[1] # ViewContent(2)[2]

\* C12: in every renderer, a block whose type is one of the twenty-two types
\* of the data model gets a non-empty node of its own, a block of any other
\* type gets the empty result, and every block of the section has its entry.
C12_DispatchTotal ==
  view.rendered =>
    \A i \in 1..Len(ViewSections) :
      /\ Len(view.sections[i].blocks) = Len(ViewContent(i))
      /\ \A j \in 1..Len(ViewContent(i)) :
           LET node == view.sections[i].blocks[j]
               block == ViewContent(i)[j]
           IN  IF TypeOf(block) \in ArticleContentType
               THEN node # NullNode /\ node.block = block
               ELSE node = NullNode

\* the two-digit ordinals
OrdinalTexts == <<"01", "02", "03", "04", "05", "06", "07", "08", "09", "10",
                  "11", "12">>

\* C24: in every copy of the renderer, the section at position i (from zero)
\* is labelled with the ordinal i + 1 written with two digits.
C24_TwoDigitOrdinals ==
  view.rendered =>
    \A i \in 1..Len(view.sections) : view.sections[i].label = OrdinalTexts[i]

(***************************************************************************)
(* Properties of the bold spans.                                           *)
(***************************************************************************)
RECURSIVE OnlyMarkers(_, _)
\* from place i on, every asterisk of the text belongs to a pair "**"
OnlyMarkers(text, i) ==
  IF i > Len(text) THEN TRUE
  ELSE IF text[i] # "*" THEN OnlyMarkers(text, i + 1)
  ELSE i + 1 <= Len(text) /\ text[i + 1] = "*" /\ OnlyMarkers(text, i + 2)

RECURSIVE Segments(_, _, _)
\* the pieces of such a text between its markers, in order; piece is the one
\* being read
Segments(text, i, piece) ==
  IF i > Len(text) THEN <<piece>>
  ELSE IF text[i] # "*" THEN Segments(text, i + 1, Append(piece, text[i]))
  ELSE <<piece>> \o Segments(text, i + 2, <<>>)

\* all markers are paired on one line: the markers come in an even number and
\* no line break stands between an opening marker and its closing marker
ProperlyPaired(text) ==
  /\ OnlyMarkers(text, 1)
  /\ LET segs == Segments(text, 1, <<>>)
     IN  /\ Len(segs) % 2 = 1
         /\ \A n \in 1..Len(segs) :
              n % 2 = 0 => \A m \in 1..Len(segs[n]) : segs[n][m] # "\n"

\* C13: for a text whose `**` markers are all paired on one line, the spans
\* are the pieces between the markers in input order, alternately plain and
\* emphasized, starting plain; an emphasized span carries the text between
\* its two markers without the markers, a plain span its text unchanged.
C13_PairedMarkersAlternate ==
  (spans # NoSpans /\ ProperlyPaired(markup)) =>
    LET segs == Segments(markup, 1, <<>>)
    IN  /\ Len(spans) = Len(segs)
        /\ \A n \in 1..Len(segs) :
             /\ spans[n].text = segs[n]
             /\ n % 2 = 1 => spans[n].element = "text"
             /\ n % 2 = 0 => spans[n].element \in {"strong", "span"}

\* a paragraph of the form plain, emphasized, plain, emphasized, plain with
\* a non-empty plain span and a non-empty emphasized span
C13_Witness ==
  /\ spans # NoSpans
  /\ ProperlyPaired(markup)
  /\ Len(spans) = 5
  /\ spans[1].text # <<>>
  /\ spans[2] = ElementSpan("strong", <<"a">>)
  /\ spans[4].element = "strong"

\* C14: every piece of the text that is not a match of the pattern, a `**`
\* left unmatched included, is a plain span that carries the piece unchanged.
C14_UnmatchedMarkersLiteral ==
  spans # NoSpans =>
    \A n \in 1..Len(spans) :
      n % 2 = 1 => spans[n] = PlainSpan(Split(markup)[n])

(***************************************************************************)
(* Properties of the image block.                                          *)
(***************************************************************************)
Abs(n) == IF n < 0 THEN 0 - n ELSE n

\* |p - width / height| < |q - width / height| for the presets p and q, in
\* exact arithmetic: both sides are multiplied by height, p.den and q.den
StrictlyNearer(p, q, size) ==
  Abs(p.num * size.height - size.width * p.den) * q.den
    < Abs(q.num * size.height - size.width * q.den) * p.den

\* the label of the preset nearest to width / height, the one declared first
\* among those equally near
ExactNearestLabel(size) ==
  LET first == CHOOSE i \in 1..Len(ratioPresets) :
                 /\ \A j \in 1..Len(ratioPresets) :
                      ~StrictlyNearer(ratioPresets[j], ratioPresets[i], size)
                 /\ \A j \in 1..(i - 1) :
                      StrictlyNearer(ratioPresets[i], ratioPresets[j], size)
  IN  ratioPresets[first].label

\* C15: the aspect is '16 / 9' at first and changes only at a load event
\* with non-zero natural width and height; after such a load it is the
\* preset with the least |preset - width / height|, the one declared first
\* among presets equally near; a load with zero width or height leaves it
\* unchanged.
C15_NearestPresetFirstDeclaredWins ==
  /\ aspect = DefaultAspect
  /\ [][aspect' # aspect => loadEvent' = "set"]_vars
  /\ [][loadEvent' = "skipped" => aspect' = aspect]_vars
  /\ [](loadEvent = "set" => aspect = ExactNearestLabel(natural))

(***************************************************************************)
(* Properties of the accordion block.                                      *)
(***************************************************************************)
\* the items whose answer is rendered
OpenItems == {idx \in 0..(itemCount - 1) : shown[idx]}

\* C16: in an accordion with at least one item, exactly item 0 is open
\* before the first click, and a click on the header of item k leaves item k
\* closed if it was open and open if it was closed.
C16_FirstOpenAndClickFlips ==
  /\ (itemCount >= 1 /\ ~clicked.any) => OpenItems = {0}
  /\ clicked.any => (shown[clicked.idx] = ~clicked.wasOpen)

\* the header of an open item other than the first was clicked: it is closed
C16_Witness ==
  /\ clicked.any
  /\ clicked.idx = 2
  /\ clicked.wasOpen
  /\ ~shown[2]

\* C17: whatever headers were clicked, at most one item is open.
C17_AtMostOneOpen ==
  \A i, j \in 0..(itemCount - 1) : (shown[i] /\ shown[j]) => i = j

\* after a click one item is open among several
C17_Witness ==
  /\ clicked.any
  /\ itemCount >= 3
  /\ OpenItems = {1}

(***************************************************************************)
(* Properties of the comparison block and of the table block.              *)
(***************************************************************************)
\* C23: in a rendered comparison block of N columns, every row that has N
\* values is N + 1 cells, the label first and the N values after it in their
\* order; in a rendered table, every row is its cells in their order.
C23_RowCells ==
  cells.rendered =>
    /\ Len(cells.body) = Len(grid.rows)
    /\ grid.type = "comparison" =>
         \A i \in 1..Len(grid.rows) :
           Len(grid.rows[i].values) = Len(grid.columns) =>
             /\ Len(cells.body[i]) = Len(grid.columns) + 1
             /\ cells.body[i][1].text = grid.rows[i].label
             /\ \A j \in 1..Len(grid.columns) :
                  cells.body[i][j + 1].text = grid.rows[i].values[j]
    /\ grid.type = "table" =>
         \A i \in 1..Len(grid.rows) :
           /\ Len(cells.body[i]) = Len(grid.rows[i])
           /\ \A j \in 1..Len(grid.rows[i]) :
                cells.body[i][j].text = grid.rows[i][j]

\* a comparison of two columns with a row of two different values, rendered
C23_Witness ==
  /\ cells.rendered
  /\ grid.type = "comparison"
  /\ Len(grid.columns) = 2
  /\ Len(grid.rows) = 2
  /\ grid.rows[2].values = <<"x", "y">>
  /\ Len(cells.body[2]) = 3

(***************************************************************************)
(* Properties of the extension popup.                                      *)
(***************************************************************************)
AfterUrlEquals == <<"/", "?", "u", "r", "l", "=">>

\* the characters of an escaped text
EscapedChars == Unreserved \cup {"%", "0", "2", "3", "5", "A", "F"}

\* target is origin, then /?url=, then an escaped text that stands for tabUrl,
\* where origin is the saved url, or the default one, less one slash at its end
IsTargetOf(target, saved, tabUrl) ==
  LET base == IF saved = Undefined THEN DEFAULT_SERVER_URL ELSE saved
      n == IF base[Len(base)] = "/" THEN Len(base) - 1 ELSE Len(base)
      value == SubSeq(target, n + 7, Len(target))
  IN  /\ Len(target) >= n + 6
      /\ SubSeq(target, 1, n) = SubSeq(base, 1, n)
      /\ SubSeq(target, n + 1, n + 6) = AfterUrlEquals
      /\ \A i \in 1..Len(value) : value[i] \in EscapedChars
      /\ PercentDecode(value) = tabUrl

\* C25: a click on Analyze with an empty tab url does nothing; a tab is
\* created only by the last step of the handler of a click made with a tab
\* url, one tab, and its url is the saved server url (the default one when
\* none is saved) less one slash at its end, then /?url=, then the
\* URI-encoded tab url.
C25_AnalyzeOpensTarget ==
  /\ [][(popStep'.op = "ClickAnalyze" /\ currentTabUrl = <<>>)
          => UNCHANGED <<handlers, tabs, storage, closed>>]_vars
  /\ [][tabs' # tabs
          => /\ popStep'.op = "SetSettled"
             /\ Len(tabs') = Len(tabs) + 1
             /\ currentTabUrl # <<>>]_vars
  /\ [](tabs # <<>>
          => /\ Len(tabs) = 1
             /\ opened.url = currentTabUrl
             /\ opened.url # <<>>
             /\ IsTargetOf(tabs[1], opened.saved, opened.url))

\* the saved server url ends in two slashes and the tab url needs escaping
C25_Witness ==
  /\ tabs = << <<"s", "/", "/", "?", "u", "r", "l", "=", "a", "%", "2", "F">> >>
  /\ opened.saved = <<"s", "/", "/">>
  /\ currentTabUrl = <<"a", "/">>
  /\ closed

\* C26: the page the extension opened sends, in the POST of the submission
\* it starts on load, the translate choice that was in the popup at the click.
C26_TranslateChoiceIsSent ==
  (popStep.op = "PageLoads" /\ lastStep.op = "Mount" /\ lastStep.sub \in Live)
    => lastPost.translate_to_chinese = opened.translate

(***************************************************************************)
(* Properties of the rating block.                                         *)
(***************************************************************************)
\* the icons of one kind among those rendered
CountOf(kind) == Cardinality({i \in 1..Len(stars) : stars[i] = kind})

\* C30: for every item (scores are not negative here) the icons rendered are
\* as many as the whole part of maxScore, 5 when maxScore is absent or 0; the
\* full stars are as many as the whole part of the score, and there is a half
\* star exactly when the rest of the score is at least one half.
C30_StarCounts ==
  stars # NoStars =>
    LET whole == rating.score \div Resolution
        rest == rating.score - whole * Resolution
        scale == IF rating.hasMaxScore /\ rating.maxScore > 0
                 THEN rating.maxScore \div Resolution
                 ELSE 5
    IN  /\ Len(stars) = scale
        /\ CountOf("full") = whole
        /\ CountOf("half") = (IF 2 * rest >= Resolution THEN 1 ELSE 0)
        /\ CountOf("full") + CountOf("half") + CountOf("empty") = Len(stars)

(***************************************************************************)
(* Properties of the copy buttons.                                         *)
(***************************************************************************)
\* C18: for the 2 seconds that follow a successful copy the flag is true,
\* and after them it is false, however the clicks follow one another.
C18_CopiedForTwoSeconds ==
  /\ sinceCopy < CopiedTimeout => copied
  /\ sinceCopy > CopiedTimeout => ~copied

TypeOK ==
  /\ articleData \in Docs \cup {NULL}
  /\ loading \in BOOLEAN
  /\ taskStatus \in TaskStatuses \cup {NULL, "creating"}
  /\ articleUrl \in Strs \cup {NullStr}
  /\ inputUrl \in Strs
  /\ showInput \in BOOLEAN
  /\ Live \subseteq 1..MaxSubs
  /\ stale \subseteq Live

====
